---- MODULE Spec2Model ----
(***************************************************************************)
(* Lineage Graph & Confidence Engine of torroreactpooja                    *)
(* (backend/api/lineage.py, backend/api/graph_store.py, backend/main.py).  *)
(*                                                                         *)
(* Numbers: confidence scores are Python floats in the source.  The model  *)
(* keeps them as exact rationals num/den with den = 1000 * max(1, number   *)
(* of mappings), so 0.4 is 400/1000; float rounding error is not modelled. *)
(* Times: datetime.now() is a logical clock; every reading of it by an     *)
(* operation returns the current value and advances it by one tick.        *)
(***************************************************************************)
EXTENDS Integers, Sequences, FiniteSets, TLC

VARIABLES
    conf_in,            \* arguments of the compute_edge_confidence call under study
    conf_out,           \* its result (done, num, den, evidence)
    active_connectors,  \* main.active_connectors: list of {id, enabled}
    discovered_assets,  \* main.discovered_assets / assets file: list of asset dicts
    query_logs,         \* query_logs.json "entries": list of logged statements
    store,              \* lineage_store.json: nodes, edges, snapshots, raw artifacts
    now,                \* the clock behind datetime.now()
    response,           \* what the last get_data_lineage call returned
    proposals,          \* curation_edits.json "proposals"
    cur_result,         \* the last propose/approve call: inputs, outcome, proposals before it
    signing_key,        \* environment variable TORRO_LINEAGE_SIGNING_KEY
    sign_in,            \* the two edges handed to sign_edge in the signing study
    sign_out,           \* the signatures returned, one pair per round of signing
    page_in,            \* nodes and edges handed to the pagination step under study
    artifact_result,    \* the last ingest/reconcile call: inputs, outcome, store before
    graph_env,          \* TORRO_GRAPH_BACKEND and whether NEO4J_URI is set
    neo4j,              \* what the neo4j backend holds: node ids, edge keys
    writers             \* concurrent writers of lineage_store.json and the file's state

vars == <<conf_in, conf_out, active_connectors, discovered_assets, query_logs,
          store, now, response, proposals, cur_result, signing_key,
          sign_in, sign_out, page_in, artifact_result, graph_env, neo4j, writers>>

confVars  == <<conf_in, conf_out>>
graphVars == <<active_connectors, discovered_assets, query_logs, store, response>>
curVars   == <<proposals, cur_result>>
signVars  == <<sign_in, sign_out>>
artifactVars == <<artifact_result>>
backendVars  == <<graph_env, neo4j>>
writerVars   == <<writers>>

(***************************************************************************)
(* Bounds                                                                  *)
(***************************************************************************)
MaxMappings == 12       \* longest column_lineage list handed to the scorer
MaxTrans == 2           \* longest transformations list handed to the scorer
MaxProposals == 2       \* most curation proposals kept in the model
MaxClock == 4           \* last tick of the clock at which an operation may start
MaxGraphClock == 6      \* last tick at which a lineage build may start

(***************************************************************************)
(* Small helpers                                                           *)
(***************************************************************************)
Min(a, b) == IF a < b THEN a ELSE b
Max(a, b) == IF a > b THEN a ELSE b

Range(s) == {s[i] : i \in 1..Len(s)}

RECURSIVE SumSeq(_)
SumSeq(s) == IF s = <<>> THEN 0 ELSE Head(s) + SumSeq(Tail(s))

Repeat(x, n) == [i \in 1..n |-> x]

(***************************************************************************)
(* ColumnLineage (lineage.py:239-247)                                      *)
(***************************************************************************)
\* a mapping that takes its two tables the other way round
ColumnLineage_swapped(st, sc, tt, tc, rt, pii, dq, imp) ==
    [source_table |-> tt, source_column |-> sc,
     target_table |-> st, target_column |-> tc,
     relationship_type |-> rt, contains_pii |-> pii,
     data_quality_score |-> dq, impact_score |-> imp]

ColumnLineage(st, sc, tt, tc, rt, pii, dq, imp) ==
    [source_table |-> st, source_column |-> sc,
     target_table |-> tt, target_column |-> tc,
     relationship_type |-> rt, contains_pii |-> pii,
     data_quality_score |-> dq, impact_score |-> imp]

(***************************************************************************)
(* compute_edge_confidence (lineage.py:283-303)                            *)
(* Result: num/den is the returned score, den = 1000 * max(1, mappings).   *)
(***************************************************************************)
StrongRelationships == {"foreign_key", "etl_pipeline", "elt_pipeline", "id_relationship"}
StrongTransformations == {"FOREIGN_KEY", "ETL_PIPELINE", "ELT_PIPELINE", "ID_RELATIONSHIP"}
SqlOpTransformations == {"COUNT", "SUM", "JOIN", "DISTINCT"}

\* (cl.impact_score or 1): a falsy impact (0, None) counts as 1
ImpactOr1(cl) == IF cl.impact_score = 0 THEN 1 ELSE cl.impact_score

\* base = 0.4, or 0.6 for a strong relationship (thousandths)
BaseScore_weak(relationship) == 400
BaseScore(relationship) ==
    IF relationship \in StrongRelationships THEN 600 ELSE 400

\* min(0.3, mappings * 0.03) + min(0.2, (avg_impact / 10) * 0.2), in
\* thousandths multiplied by mappings (mappings > 0)
MappingScoreN_nocap(column_lineage) ==
    LET mappings   == Len(column_lineage)
        sum_impact == SumSeq([i \in 1..mappings |-> ImpactOr1(column_lineage[i])])
    IN  mappings * (mappings * 30) + 20 * sum_impact
MappingScoreN(column_lineage) ==
    LET mappings   == Len(column_lineage)
        sum_impact == SumSeq([i \in 1..mappings |-> ImpactOr1(column_lineage[i])])
    IN  mappings * Min(300, mappings * 30) + Min(200 * mappings, 20 * sum_impact)

TransTypes(transformations) ==
    {transformations[i].type : i \in 1..Len(transformations)}

\* +0.15 when a strong transformation type is present (thousandths)
TransformationBonus_any(transformations) ==
    IF transformations # <<>> THEN 150 ELSE 0
TransformationBonus(transformations) ==
    IF transformations # <<>>
       /\ TransTypes(transformations) \cap StrongTransformations # {}
    THEN 150 ELSE 0

\* max(0.0, min(1.0, base)), scaled
ClampScore_none(baseN, scale) == baseN
ClampScore(baseN, scale) == Max(0, Min(1000 * scale, baseN))

ConfidenceEvidence(relationship, column_lineage, transformations) ==
    LET ev0 == IF relationship \in StrongRelationships
               THEN << <<"relationship_type", relationship>> >> ELSE <<>>
        ev1 == IF column_lineage # <<>>
               THEN Append(ev0, <<"column_mappings", Len(column_lineage)>>) ELSE ev0
        ev2 == IF TransformationBonus(transformations) > 0
               THEN Append(ev1, <<"transformations", "strong">>) ELSE ev1
    IN  IF transformations # <<>>
           /\ TransTypes(transformations) \cap SqlOpTransformations # {}
        THEN Append(ev2, <<"transformations", "sql_ops">>) ELSE ev2

compute_edge_confidence(relationship, column_lineage, transformations) ==
    LET scale == Max(1, Len(column_lineage))
        baseN == scale * (BaseScore(relationship) + TransformationBonus(transformations))
                 + (IF column_lineage # <<>> THEN MappingScoreN(column_lineage) ELSE 0)
    IN  [num |-> ClampScore(baseN, scale), den |-> 1000 * scale,
         evidence |-> ConfidenceEvidence(relationship, column_lineage, transformations)]

\* round(confidence, 3), in thousandths
Round3(c) == (2 * 1000 * c.num + c.den) \div (2 * c.den)

(***************************************************************************)
(* SpecConf: the scorer applied to bounded inputs                          *)
(***************************************************************************)
ConfRelationships ==
    StrongRelationships \cup {"feeds_into", "inferred_from_metadata"}
ConfImpacts == {-60, 0, 1, 4, 10, 40}
ConfTransTypes == {"FOREIGN_KEY", "ID_RELATIONSHIP", "COUNT", "QUERY_LOG"}

ScorerMapping(imp) ==
    ColumnLineage("s", "c", "t", "c", "direct_match", FALSE, 95, imp)

\* lists of n mappings: the first k (0 or 1) of impact a, the others of impact b
ConfLineages ==
    {[i \in 1..n |-> ScorerMapping(IF i <= k THEN a ELSE b)] :
        <<n, k, a, b>> \in {q \in (0..MaxMappings) \X {0, 1} \X ConfImpacts \X ConfImpacts :
                              q[2] <= q[1]}}

ConfTransformations ==
    UNION {[1..n -> [type : ConfTransTypes]] : n \in 0..MaxTrans}

NoScore == [done |-> FALSE, num |-> 0, den |-> 1, evidence |-> <<>>]

\* lineage_store.json before anything was written
EmptyStore ==
    [nodes |-> <<>>, edges |-> <<>>, snapshots |-> <<>>,
     openlineage |-> <<>>, dbt |-> <<>>, airflow |-> <<>>, metadata |-> <<>>]

\* the variables of the studies a specification does not run
IdleSigning == sign_in = <<>> /\ sign_out = <<>>
IdlePaging == page_in = [nodes |-> <<>>, edges |-> <<>>]
IdleArtifacts == artifact_result = [status |-> "none"]
IdleBackend == graph_env = [backend |-> "json", uri |-> FALSE]
               /\ neo4j = [nodes |-> {}, edges |-> {}]
IdleWriters == writers = [procs |-> <<>>, file |-> "whole"]

InitRest ==
    /\ active_connectors = <<>>
    /\ discovered_assets = <<>>
    /\ query_logs = <<>>
    /\ store = EmptyStore
    /\ now = 0
    /\ response = [status |-> "none"]
    /\ proposals = <<>>
    /\ cur_result = [status |-> "none"]
    /\ signing_key = "unset"
    /\ IdleSigning /\ IdlePaging /\ IdleArtifacts /\ IdleBackend /\ IdleWriters

InitConf ==
    /\ conf_in \in [relationship : ConfRelationships,
                    column_lineage : ConfLineages,
                    transformations : ConfTransformations]
    /\ conf_out = NoScore
    /\ InitRest

ScoreEdge ==
    /\ ~conf_out.done
    /\ LET r == compute_edge_confidence(conf_in.relationship, conf_in.column_lineage,
                                        conf_in.transformations)
       IN  conf_out' = [done |-> TRUE, num |-> r.num, den |-> r.den,
                        evidence |-> r.evidence]
    /\ UNCHANGED <<conf_in, graphVars, now, curVars, signing_key>>
    /\ UNCHANGED <<signVars, page_in, artifactVars, backendVars, writerVars>>

NextConf == ScoreEdge

SpecConf == InitConf /\ [][NextConf]_vars

(***************************************************************************)
(* Provenance signer (lineage.py:78-91).  HMAC-SHA256 over the canonical   *)
(* JSON of the four fields is kept as the tuple of key and fields.         *)
(***************************************************************************)
NoKey == "unset"
NoSignature == <<>>

\* a signer that leaves created_at out of the signed payload
sign_edge_unstamped(key, source, target, relationship, created_at) ==
    IF key = NoKey \/ key = "" THEN NoSignature
    ELSE <<"hmac-sha256", key, source, target, relationship>>

sign_edge(key, source, target, relationship, created_at) ==
    IF key = NoKey \/ key = "" THEN NoSignature
    ELSE <<"hmac-sha256", key, source, target, relationship, created_at>>

(***************************************************************************)
(* LineageEdge (lineage.py:258-272).  confidence_score is in thousandths,  *)
(* avg_data_quality in hundredths.                                         *)
(***************************************************************************)
LineageEdge(source, target, relationship, column_lineage, pii, quality, status, confidence, evidence, sources, t, signature) ==
    [source |-> source, target |-> target, relationship |-> relationship,
     column_lineage |-> column_lineage, total_pii_columns |-> pii,
     avg_data_quality |-> quality, last_validated |-> t,
     validation_status |-> status, confidence_score |-> confidence,
     evidence |-> evidence, sources |-> sources,
     created_at |-> t, updated_at |-> t, edge_signature |-> signature]

(***************************************************************************)
(* Curation workflow (lineage.py:233-237, 1844-1913)                       *)
(***************************************************************************)
UpperLetters == "ABCDEFGHIJKLMNOPQRSTUVWXYZ"
LowerLetters == "abcdefghijklmnopqrstuvwxyz"

LowerChar(c) ==
    IF \E i \in 1..26 : SubSeq(UpperLetters, i, i) = c
    THEN LET i == CHOOSE k \in 1..26 : SubSeq(UpperLetters, k, k) = c
         IN  SubSeq(LowerLetters, i, i)
    ELSE c

\* str.lower()
RECURSIVE Lower(_)
Lower(str) ==
    IF str = "" THEN ""
    ELSE LowerChar(SubSeq(str, 1, 1)) \o Lower(SubSeq(str, 2, Len(str)))

Lower_identity(str) == str

\* str.lower() as _require_role applies it to both operands
RoleLower(str) == Lower(str)

AdminRole == "admin"

\* the X-Role parameter: absent (None) or a string
NoRole == [present |-> FALSE, value |-> ""]
RoleClaim(str) == [present |-> TRUE, value |-> str]

\* TRUE when _require_role raises HTTPException(403)
RequireRoleRaises_never(role, x_role) == FALSE
RequireRoleRaises(role, x_role) ==
    LET required == RoleLower(role)
        got      == RoleLower(IF x_role.present THEN x_role.value ELSE "")
    IN  required # "" /\ got # required

Missing == "<missing>"
NoTime == -1
NoEdge == [source |-> Missing]

\* ColumnLineage(**cl) validates: the five string fields are required
ValidColumnLineage(cl) ==
    /\ cl.source_table # Missing /\ cl.source_column # Missing
    /\ cl.target_table # Missing /\ cl.target_column # Missing
    /\ cl.relationship_type # Missing

\* an entry that is stored as approved already
ProposalEntry_approved(payload, t) ==
    [source |-> payload.source, target |-> payload.target,
     relationship |-> IF payload.relationship = Missing THEN "manual"
                      ELSE payload.relationship,
     column_lineage |-> payload.column_lineage,
     proposed_at |-> t, status |-> "approved", notes |-> payload.notes,
     approved_at |-> t]

\* the entry propose_lineage_edit stores
ProposalEntry(payload, t) ==
    [source |-> payload.source, target |-> payload.target,
     relationship |-> IF payload.relationship = Missing THEN "manual"
                      ELSE payload.relationship,
     column_lineage |-> payload.column_lineage,
     proposed_at |-> t, status |-> "proposed", notes |-> payload.notes,
     approved_at |-> NoTime]

\* index of the first proposal with this source and target in status
\* "proposed", 0 when there is none
RECURSIVE FindMatchFrom(_, _, _, _)
FindMatchFrom(props, source, target, i) ==
    IF i > Len(props) THEN 0
    ELSE IF props[i].source = source /\ props[i].target = target
            /\ props[i].status = "proposed"
         THEN i
         ELSE FindMatchFrom(props, source, target, i + 1)

RECURSIVE FindAnyStatusFrom(_, _, _, _)
FindAnyStatusFrom(props, source, target, i) ==
    IF i > Len(props) THEN 0
    ELSE IF props[i].source = source /\ props[i].target = target
         THEN i
         ELSE FindAnyStatusFrom(props, source, target, i + 1)

FindMatch_anystatus(props, source, target) == FindAnyStatusFrom(props, source, target, 1)
FindMatch(props, source, target) == FindMatchFrom(props, source, target, 1)

\* match["status"] = "approved"; match["approved_at"] = now_iso
MarkApproved_all(props, i, t) ==
    [j \in 1..Len(props) |->
        IF props[j].source = props[i].source /\ props[j].target = props[i].target
        THEN [props[j] EXCEPT !.status = "approved", !.approved_at = t]
        ELSE props[j]]
MarkApproved(props, i, t) ==
    [props EXCEPT ![i] = [@ EXCEPT !.status = "approved", !.approved_at = t]]

\* the edge approve_lineage_edit returns
ApprovedEdge_scored(source, target, match, t) ==
    LineageEdge(source, target, match.relationship, match.column_lineage,
                0, 9500, "valid",
                Round3(compute_edge_confidence(match.relationship,
                                               match.column_lineage, <<>>)),
                <<"manual_curation">>, <<"user">>, t, NoSignature)
ApprovedEdge(source, target, match, t) ==
    LineageEdge(source, target, match.relationship, match.column_lineage,
                0, 9500, "valid", 950, <<"manual_curation">>, <<"user">>, t,
                NoSignature)

CurationResult(op, x_role, source, target, code, edge, before) ==
    [status |-> "returned", op |-> op, x_role |-> x_role, source |-> source,
     target |-> target, code |-> code, edge |-> edge, before |-> before]

\* inputs of the curation calls
RoleClaims ==
    {NoRole, RoleClaim(""), RoleClaim("admin"), RoleClaim("Admin"),
     RoleClaim("ADMIN"), RoleClaim("viewer")}

CurationPayload(source, target, relationship, k) ==
    [source |-> source, target |-> target, relationship |-> relationship,
     column_lineage |-> k, notes |-> ""]

\* no relationship and no mappings; a relationship and one mapping; a mapping
\* that lacks its target_table
CurationPayloads ==
    {CurationPayload("a", "b", Missing, <<>>),
     CurationPayload("a", "b", "feeds_into",
        <<ColumnLineage("a", "id", "b", "id", "direct_match", FALSE, 95, 1)>>),
     CurationPayload("b", "b", Missing,
        <<ColumnLineage("b", "id", Missing, "id", "direct_match", FALSE, 95, 1)>>)}

ApproveSources == {"a", "b"}
ApproveTargets == {"b", "c"}

\* POST /lineage/curation/propose
propose_lineage_edit(payload, x_role) ==
    /\ now < MaxClock
    /\ IF RequireRoleRaises(AdminRole, x_role)
       THEN \* HTTPException(403) is caught by "except Exception" and re-raised as 500
            /\ cur_result' = CurationResult("propose", x_role, payload.source,
                                            payload.target, 500, NoEdge, proposals)
            /\ UNCHANGED <<proposals, now>>
       ELSE /\ Len(proposals) < MaxProposals
            /\ proposals' = Append(proposals, ProposalEntry(payload, now))
            /\ now' = now + 1
            /\ cur_result' = CurationResult("propose", x_role, payload.source,
                                            payload.target, 200, NoEdge, proposals)
    /\ UNCHANGED <<confVars, graphVars, signing_key>>
    /\ UNCHANGED <<signVars, page_in, artifactVars, backendVars, writerVars>>

\* POST /lineage/curation/approve
approve_lineage_edit(source, target, x_role) ==
    /\ now < MaxClock
    /\ LET i == FindMatch(proposals, source, target)
       IN  IF RequireRoleRaises(AdminRole, x_role)
           THEN /\ cur_result' = CurationResult("approve", x_role, source, target,
                                                403, NoEdge, proposals)
                /\ UNCHANGED <<proposals, now>>
           ELSE IF i = 0
           THEN /\ cur_result' = CurationResult("approve", x_role, source, target,
                                                404, NoEdge, proposals)
                /\ UNCHANGED <<proposals, now>>
           ELSE IF \E k \in 1..Len(proposals[i].column_lineage) :
                      ~ValidColumnLineage(proposals[i].column_lineage[k])
           THEN \* ColumnLineage(**cl) raises before anything is changed: 500
                /\ cur_result' = CurationResult("approve", x_role, source, target,
                                                500, NoEdge, proposals)
                /\ now' = now + 1
                /\ UNCHANGED proposals
           ELSE /\ proposals' = MarkApproved(proposals, i, now)
                /\ now' = now + 1
                /\ cur_result' = CurationResult("approve", x_role, source, target, 200,
                                                ApprovedEdge(source, target,
                                                             proposals[i], now),
                                                proposals)
    /\ UNCHANGED <<confVars, graphVars, signing_key>>
    /\ UNCHANGED <<signVars, page_in, artifactVars, backendVars, writerVars>>

InitCuration ==
    /\ conf_in = [relationship |-> "feeds_into", column_lineage |-> <<>>,
                  transformations |-> <<>>]
    /\ conf_out = NoScore
    /\ active_connectors = <<>>
    /\ discovered_assets = <<>>
    /\ query_logs = <<>>
    /\ store = EmptyStore
    /\ now = 0
    /\ response = [status |-> "none"]
    /\ proposals = <<>>
    /\ cur_result = [status |-> "none"]
    /\ signing_key = "k1"
    /\ IdleSigning /\ IdlePaging /\ IdleArtifacts /\ IdleBackend /\ IdleWriters

Propose == \E payload \in CurationPayloads, x_role \in RoleClaims :
              propose_lineage_edit(payload, x_role)

Approve == \E source \in ApproveSources, target \in ApproveTargets, x_role \in RoleClaims :
              approve_lineage_edit(source, target, x_role)

NextCuration == Propose \/ Approve

SpecCuration == InitCuration /\ [][NextCuration]_vars

(***************************************************************************)
(* String operations of the graph assembler                                *)
(***************************************************************************)
\* p in s
Contains(s, p) ==
    \E i \in 1..(Len(s) - Len(p) + 1) : SubSeq(s, i, i + Len(p) - 1) = p

\* s.startswith(p), s.endswith(p)
StartsWith(s, p) == Len(p) <= Len(s) /\ SubSeq(s, 1, Len(p)) = p
EndsWith(s, p) == Len(p) <= Len(s) /\ SubSeq(s, Len(s) - Len(p) + 1, Len(s)) = p

ContainsAny(s, patterns) == \E q \in patterns : Contains(s, q)

\* s.split('.')[-1]
LastDotPart(s) ==
    LET dots == {i \in 1..Len(s) : SubSeq(s, i, i) = "."}
    IN  IF dots = {} THEN s
        ELSE LET last == CHOOSE i \in dots : \A j \in dots : j <= i
             IN  SubSeq(s, last + 1, Len(s))

\* number of '.'-separated parts of s
DotParts(s) == Cardinality({i \in 1..Len(s) : SubSeq(s, i, i) = "."}) + 1

RECURSIVE Flatten(_)
Flatten(ss) == IF ss = <<>> THEN <<>> ELSE Head(ss) \o Flatten(Tail(ss))

\* the elements of s that satisfy keep[i], in order
RECURSIVE SelectIdx(_, _, _)
SelectIdx(s, keep, i) ==
    IF i > Len(s) THEN <<>>
    ELSE (IF keep[i] THEN <<s[i]>> ELSE <<>>) \o SelectIdx(s, keep, i + 1)

(***************************************************************************)
(* The registry: connectors and discovered assets (main.py:93-157).        *)
(* An asset is a dict of the assets file; "view_tables" and                *)
(* "view_transformations" stand for what extract_table_references_from_sql *)
(* returns for the view's SQL text (fetched from BigQuery for a bq_ view,  *)
(* read from the asset for a starburst_ view).                             *)
(***************************************************************************)
Column(name, type) == [name |-> name, type |-> type, description |-> ""]

Connector(id) == [id |-> id, enabled |-> TRUE]

Asset(id, name, type, catalog, schema, connector_id, columns, sql, view_tables, view_transformations) ==
    [id |-> id, name |-> name, type |-> type, catalog |-> catalog,
     schema |-> schema, connector_id |-> connector_id, columns |-> columns,
     sql |-> sql, foreign_keys |-> <<>>, view_tables |-> view_tables,
     view_transformations |-> view_transformations,
     row_count |-> 0, last_modified |-> "", fetch_error |-> FALSE]

\* an asset whose SQL text cannot be fetched or parsed: the client call or
\* the parser raises inside the view-lineage function
Unavailable(asset) == [asset EXCEPT !.fetch_error = TRUE]

RegisteredConnectors == <<Connector("bq_1"), Connector("starburst_1")>>

RegisteredAssets ==
    <<Asset("p.d.orders", "orders", "Table", "p", "d", "bq_1",
            <<Column("id", "INTEGER"), Column("amount", "FLOAT")>>, "", <<>>, <<>>),
      Asset("p.d.v_orders", "v_orders", "View", "p", "d", "bq_1",
            <<Column("id", "INTEGER"), Column("total", "FLOAT")>>, "",
            <<"p.d.orders">>, <<[type |-> "SUM", category |-> "aggregation"]>>),
      Asset("c.s.users", "users", "Table", "c", "s", "starburst_1",
            <<Column("user_id", "INTEGER")>>, "", <<>>, <<>>),
      Asset("c.s.accounts", "accounts", "Table", "c", "s", "starburst_1",
            <<Column("customer_id", "INTEGER"), Column("order_key", "INTEGER")>>,
            "", <<>>, <<>>)>>

(***************************************************************************)
(* PII and quality (lineage.py:305-368)                                    *)
(***************************************************************************)
PiiHigh == {"ssn", "social_security", "passport", "national_id", "license_number",
            "credit_card", "account_number", "password", "secret", "private_key"}
PiiMedium == {"email", "phone", "mobile", "address", "zip", "postal", "birth_date",
              "birthday", "age", "gender", "race", "ethnicity"}
PiiLow == {"name", "first_name", "last_name", "full_name", "username", "user_id"}

detect_pii_in_column(column_name, description) ==
    LET combined == Lower(column_name \o " " \o description)
    IN  IF ContainsAny(combined, PiiHigh) THEN <<TRUE, "HIGH">>
        ELSE IF ContainsAny(combined, PiiMedium) THEN <<TRUE, "MEDIUM">>
        ELSE IF ContainsAny(combined, PiiLow) THEN <<TRUE, "LOW">>
        ELSE <<FALSE, "NONE">>

\* called with {'name': ..., 'type': ...} only: the nullable, unique,
\* primary_key and description terms of the score are absent
get_enterprise_data_quality_score(col_name, col_type, table_metadata) ==
    LET name  == Lower(col_name)
        type  == col_type
        conv  == IF Contains(name, "email") /\ Contains(type, "VARCHAR") THEN 5
                 ELSE IF Contains(name, "date")
                         /\ ContainsAny(type, {"DATE", "TIMESTAMP"}) THEN 5
                 ELSE IF Contains(name, "id")
                         /\ ContainsAny(type, {"INTEGER", "BIGINT"}) THEN 5
                 ELSE 0
        table == (IF table_metadata.row_count > 1000 THEN 5 ELSE 0)
                 + (IF table_metadata.last_modified # "" THEN 5 ELSE 0)
    IN  Min(100, Max(0, 50 + conv + table))

get_column_quality_score(column) ==
    IF column.description # "" THEN 95 ELSE 80

(***************************************************************************)
(* _logs_imply_relationship (lineage.py:223-231)                           *)
(***************************************************************************)
logs_imply_relationship(logs, source_id, target_id) ==
    LET s_short == Lower(LastDotPart(source_id))
        t_short == Lower(LastDotPart(target_id))
    IN  \E i \in 1..Len(logs) :
           Contains(Lower(logs[i].sql), s_short) /\ Contains(Lower(logs[i].sql), t_short)

(***************************************************************************)
(* get_starburst_table_lineage (lineage.py:810-925)                        *)
(***************************************************************************)
IdPatterns == {"_id", "_key", "id_", "key_"}

\* foreign keys: the first asset with the catalog, schema and referenced name
ForeignKeyLineage(asset, assets) ==
    [k \in 1..Len(asset.foreign_keys) |->
        LET fk  == asset.foreign_keys[k]
            ref == asset.catalog \o "." \o asset.schema \o "." \o fk.referenced_table
        IN  IF fk.referenced_table # Missing
               /\ \E j \in 1..Len(assets) :
                  /\ assets[j].catalog = asset.catalog
                  /\ assets[j].schema = asset.schema
                  /\ assets[j].name = fk.referenced_table
            THEN <<[type |-> "FOREIGN_KEY", source_table |-> ref,
                    target_table |-> asset.id, columns |-> fk.columns]>>
            ELSE <<>>]

\* ID columns: one entry per (column, other table, other column) that matches
IdRelationshipLineage(asset, assets) ==
    [c \in 1..Len(asset.columns) |->
        LET col_name == Lower(asset.columns[c].name)
            col_type == asset.columns[c].type
        IN  IF ~ContainsAny(col_name, IdPatterns) THEN <<>>
            ELSE Flatten(
              [j \in 1..Len(assets) |->
                 IF /\ assets[j].id # asset.id
                    /\ assets[j].type = "Table"
                    /\ assets[j].catalog = asset.catalog
                 THEN Flatten(
                   [d \in 1..Len(assets[j].columns) |->
                      LET other_name == Lower(assets[j].columns[d].name)
                      IN  IF /\ col_type = assets[j].columns[d].type
                             /\ ContainsAny(other_name, IdPatterns)
                             /\ col_name # other_name
                          THEN <<[type |-> "ID_RELATIONSHIP",
                                  source_table |-> assets[j].id,
                                  target_table |-> asset.id,
                                  columns |-> <<col_name, other_name>>]>>
                          ELSE <<>>])
                 ELSE <<>>])]

\* ETL / ELT stage naming
PipelineLineage(asset, assets) ==
    LET name == Lower(asset.name)
    IN  [j \in 1..Len(assets) |->
           LET other == Lower(assets[j].name)
           IN  IF ~(/\ assets[j].id # asset.id
                    /\ assets[j].type = "Table"
                    /\ assets[j].catalog = asset.catalog)
               THEN <<>>
               ELSE IF ContainsAny(name, {"raw", "source"})
                       /\ ContainsAny(other, {"processed", "stage"})
               THEN <<[type |-> "ETL_PIPELINE", source_table |-> asset.id,
                       target_table |-> assets[j].id, columns |-> <<>>]>>
               ELSE IF ContainsAny(name, {"stage", "staging"})
                       /\ ContainsAny(other, {"analytics", "final", "prod"})
               THEN <<[type |-> "ELT_PIPELINE", source_table |-> asset.id,
                       target_table |-> assets[j].id, columns |-> <<>>]>>
               ELSE <<>>]

\* related_tables runs parallel to transformations: the foreign-key and ID
\* entries name their source_table, the pipeline entries the other table
get_starburst_table_lineage(asset, assets) ==
    IF asset.type # "Table" THEN [tables |-> <<>>, transformations |-> <<>>]
    ELSE LET fks   == Flatten(ForeignKeyLineage(asset, assets))
             ids   == Flatten(IdRelationshipLineage(asset, assets))
             pipes == Flatten(PipelineLineage(asset, assets))
         IN  [tables |-> [k \in 1..Len(fks) |-> fks[k].source_table]
                         \o [k \in 1..Len(ids) |-> ids[k].source_table]
                         \o [k \in 1..Len(pipes) |-> pipes[k].target_table],
              transformations |-> fks \o ids \o pipes]

(***************************************************************************)
(* get_bigquery_view_lineage / get_starburst_view_lineage                  *)
(* (lineage.py:780-808, 927-967)                                           *)
(***************************************************************************)
NoLineage == [tables |-> <<>>, transformations |-> <<>>]

\* "except Exception" answers a failed fetch or parse with the empty result
get_bigquery_view_lineage(asset) ==
    IF asset.type # "View" \/ DotParts(asset.id) < 3 THEN NoLineage
    ELSE IF asset.fetch_error THEN NoLineage
    ELSE [tables |-> asset.view_tables, transformations |-> asset.view_transformations]

get_starburst_view_lineage(asset) ==
    IF asset.type # "View" \/ asset.sql = "" THEN NoLineage
    ELSE IF asset.fetch_error THEN NoLineage
    ELSE [tables |-> asset.view_tables, transformations |-> asset.view_transformations]

(***************************************************************************)
(* Column matcher (lineage.py:427-652).  Both matchers hand the tuple that *)
(* detect_pii_in_column returns to ColumnLineage(contains_pii=...), a bool *)
(* field: pii_is_bool records that the argument is not a bool, and model   *)
(* validation then raises.                                                 *)
(***************************************************************************)
MappingArgs(st, sc, tt, tc, rt, pii_is_bool, pii, dq, imp) ==
    [source_table |-> st, source_column |-> sc, target_table |-> tt,
     target_column |-> tc, relationship_type |-> rt,
     pii_is_bool |-> pii_is_bool, contains_pii |-> pii,
     data_quality_score |-> dq, impact_score |-> imp]

PairQuality(source_col, target_col) ==
    (get_column_quality_score(source_col) + get_column_quality_score(target_col)) \div 2

analyze_cross_table_sql_relationships(source_asset, target_asset) ==
    LET source_sql == Lower(source_asset.sql)
        target_sql == Lower(target_asset.sql)
        sname      == Lower(source_asset.name)
        tname      == Lower(target_asset.name)
        scols      == source_asset.columns
        tcols      == target_asset.columns
        \* table.column; the quoted spelling of the same reference occurs in
        \* no SQL of the registry below
        Ref(table, col, sql) == Contains(sql, table \o "." \o Lower(col.name))
        Mapping(sc, tc) ==
            MappingArgs(source_asset.id, sc.name, target_asset.id, tc.name,
                        "cross_table_sql", FALSE,
                        detect_pii_in_column(sc.name, sc.description)[1],
                        PairQuality(sc, tc), 9)
    IN  IF scols = <<>> \/ tcols = <<>> THEN <<>>
        ELSE IF target_sql # "" /\ Contains(target_sql, sname)
        THEN Flatten([t \in 1..Len(tcols) |->
                 Flatten([c \in 1..Len(scols) |->
                     IF Ref(sname, scols[c], target_sql)
                     THEN <<Mapping(scols[c], tcols[t])>> ELSE <<>>])])
        ELSE IF source_sql # "" /\ Contains(source_sql, tname)
        THEN Flatten([c \in 1..Len(scols) |->
                 Flatten([t \in 1..Len(tcols) |->
                     IF Ref(tname, tcols[t], source_sql)
                     THEN <<Mapping(scols[c], tcols[t])>> ELSE <<>>])])
        ELSE <<>>

\* the relationship type of one (source column, target column) pair, "" when
\* the pair is not used
UsageRelationship(source_sql, target_sql, scn, tcn) ==
    IF target_sql # "" /\ Contains(target_sql, scn) THEN "sql_reference"
    ELSE IF source_sql # "" /\ Contains(source_sql, tcn) THEN "sql_derived"
    ELSE IF ContainsAny(target_sql, {"select " \o scn, "from " \o scn, "join " \o scn,
                                     "where " \o scn, "group by " \o scn,
                                     "order by " \o scn})
         THEN "sql_transformation"
    ELSE IF ContainsAny(target_sql, {"count(" \o scn \o ")", "sum(" \o scn \o ")",
                                     "avg(" \o scn \o ")", "min(" \o scn \o ")",
                                     "max(" \o scn \o ")"})
         THEN "aggregation"
    ELSE IF ContainsAny(target_sql, {"upper(" \o scn \o ")", "lower(" \o scn \o ")",
                                     "trim(" \o scn \o ")", "substring(" \o scn,
                                     "concat(" \o scn})
         THEN "string_transform"
    ELSE IF ContainsAny(target_sql, {"date(" \o scn \o ")", "extract(" \o scn,
                                     "format_date(" \o scn})
         THEN "date_transform"
    ELSE ""

UsageImpact(relationship_type) ==
    IF relationship_type = "sql_reference" THEN 10
    ELSE IF relationship_type = "sql_derived" THEN 8 ELSE 6

\* the ColumnLineage(...) calls of build_column_lineage_from_usage, in order
UsageMappingArgs(source_asset, target_asset) ==
    LET scols == source_asset.columns
        tcols == target_asset.columns
    IN  IF scols = <<>> \/ tcols = <<>> THEN <<>>
        ELSE analyze_cross_table_sql_relationships(source_asset, target_asset)
             \o Flatten([t \in 1..Len(tcols) |->
                  Flatten([c \in 1..Len(scols) |->
                     LET rt == UsageRelationship(Lower(source_asset.sql),
                                                 Lower(target_asset.sql),
                                                 Lower(scols[c].name),
                                                 Lower(tcols[t].name))
                     IN  IF rt = "" THEN <<>>
                         ELSE <<MappingArgs(source_asset.id, scols[c].name,
                                            target_asset.id, tcols[t].name, rt, FALSE,
                                            detect_pii_in_column(scols[c].name,
                                                scols[c].description)[1],
                                            PairQuality(scols[c], tcols[t]),
                                            UsageImpact(rt))>>])])

\* ColumnLineage(**args): raises unless contains_pii is a bool
NewColumnLineage(a) ==
    ColumnLineage(a.source_table, a.source_column, a.target_table, a.target_column,
                  a.relationship_type, a.contains_pii, a.data_quality_score,
                  a.impact_score)

build_column_lineage_from_usage(source_asset, target_asset) ==
    LET args == UsageMappingArgs(source_asset, target_asset)
    IN  [raised   |-> \E i \in 1..Len(args) : ~args[i].pii_is_bool,
         mappings |-> [i \in 1..Len(args) |-> NewColumnLineage(args[i])]]

build_column_lineage_from_metadata(source_asset, target_asset) ==
    build_column_lineage_from_usage(source_asset, target_asset)

(***************************************************************************)
(* Graph assembler: get_data_lineage (lineage.py:969-1419)                 *)
(***************************************************************************)
LineageNode(asset) ==
    [id |-> asset.id, name |-> asset.name, type |-> asset.type,
     catalog |-> asset.catalog, connector_id |-> asset.connector_id,
     source_system |-> IF StartsWith(asset.connector_id, "bq_") THEN "BigQuery"
                       ELSE IF StartsWith(asset.connector_id, "starburst_")
                            THEN "Starburst Galaxy" ELSE "Unknown",
     columns |-> asset.columns]

\* active_connector_ids: every connector in the list, whatever its "enabled"
ActiveConnectorIds(connectors) ==
    {connectors[i].id : i \in 1..Len(connectors)}

IsActive(asset, connectors) == asset.connector_id \in ActiveConnectorIds(connectors)

\* nodes, in asset order
BuildNodes(assets, connectors) ==
    Flatten([a \in 1..Len(assets) |->
        IF IsActive(assets[a], connectors) /\ assets[a].type \in {"Table", "View"}
        THEN <<LineageNode(assets[a])>> ELSE <<>>])

\* asset_map: the last active Table/View asset with each id
MapIds(assets, connectors) ==
    {assets[a].id : a \in {k \in 1..Len(assets) :
        IsActive(assets[k], connectors) /\ assets[k].type \in {"Table", "View"}}}

AssetMap(assets, connectors, id) ==
    LET idx == {k \in 1..Len(assets) : /\ assets[k].id = id
                                       /\ IsActive(assets[k], connectors)
                                       /\ assets[k].type \in {"Table", "View"}}
    IN  assets[CHOOSE k \in idx : \A j \in idx : j <= k]

\* a count that takes every mapping for a PII mapping
PiiCount_all(column_lineage) == Len(column_lineage)

\* sum(1 for col in column_lineage if col.contains_pii)
PiiCount(column_lineage) ==
    Cardinality({i \in 1..Len(column_lineage) : column_lineage[i].contains_pii})

\* round(avg_quality, 2) in hundredths; 95.0 when there are no mappings
AvgQuality(column_lineage) ==
    IF column_lineage = <<>> THEN 9500
    ELSE LET n == Len(column_lineage)
             total == SumSeq([i \in 1..n |-> column_lineage[i].data_quality_score])
         IN  (2 * 100 * total + n) \div (2 * n)

WithQueryLog(transformations, logs, source_id, target_id) ==
    IF logs_imply_relationship(logs, source_id, target_id)
    THEN Append(transformations, [type |-> "QUERY_LOG"]) ELSE transformations

\* the transformation types joined by a comma and a space
RECURSIVE JoinTypes(_)
JoinTypes(types) ==
    IF types = <<>> THEN ""
    ELSE IF Len(types) = 1 THEN types[1]
    ELSE types[1] \o ", " \o JoinTypes(Tail(types))

\* an edge about to be appended; "checked" says whether the insertion looks
\* for an existing edge with the same source and target first
Candidate(raised, checked, source, target, relationship, column_lineage, status, score, sources) ==
    [raised |-> raised, checked |-> checked, source |-> source, target |-> target,
     relationship |-> relationship, column_lineage |-> column_lineage,
     validation_status |-> status, confidence |-> score, sources |-> sources]

\* Strategy 1: views, from their SQL
ViewLineage(asset) ==
    IF StartsWith(asset.connector_id, "bq_") THEN get_bigquery_view_lineage(asset)
    ELSE IF StartsWith(asset.connector_id, "starburst_")
         THEN get_starburst_view_lineage(asset)
    ELSE NoLineage

Strategy1(assets, connectors, logs) ==
    Flatten([a \in 1..Len(assets) |->
        IF ~(IsActive(assets[a], connectors) /\ assets[a].type = "View") THEN <<>>
        ELSE LET asset  == assets[a]
                 result == ViewLineage(asset)
                 types  == [k \in 1..Len(result.transformations) |->
                               result.transformations[k].type]
                 rel    == IF result.transformations = <<>> THEN "feeds_into"
                           ELSE "feeds_into (transforms: "
                                \o JoinTypes(SubSeq(types, 1, Min(3, Len(types))))
                                \o ")"
             IN  Flatten([u \in 1..Len(result.tables) |->
                    IF result.tables[u] \notin MapIds(assets, connectors) THEN <<>>
                    ELSE LET up == result.tables[u]
                             cl == build_column_lineage_from_metadata(
                                       AssetMap(assets, connectors, up), asset)
                         IN  <<Candidate(cl.raised, FALSE, up, asset.id, rel,
                                 cl.mappings, "valid",
                                 compute_edge_confidence("feeds_into", cl.mappings,
                                     WithQueryLog(result.transformations, logs,
                                                  up, asset.id)),
                                 <<"view_sql">>)>>])])

\* Strategy 1.5: the mappings a transformation with two columns stands for
TransformationMappings(transformations, upstream, source_asset, target_asset) ==
    Flatten([k \in 1..Len(transformations) |->
        LET tr == transformations[k]
        IN  IF /\ tr.target_table = target_asset.id
               /\ tr.source_table = upstream
               /\ Len(tr.columns) >= 2
            THEN [i \in 1..2 |->
                    LET source_col == IF i = 1 THEN tr.columns[1]
                                      ELSE tr.columns[1] \o "_ref"
                        target_col == IF i = 1 THEN tr.columns[2]
                                      ELSE tr.columns[2] \o "_ref"
                    IN  ColumnLineage(upstream, source_col, target_asset.id, target_col,
                            Lower(tr.type),
                            detect_pii_in_column(source_col, "")[1],
                            (get_enterprise_data_quality_score(source_col, "VARCHAR",
                                                               source_asset)
                             + get_enterprise_data_quality_score(target_col, "VARCHAR",
                                                                 target_asset)) \div 2,
                            10)]
            ELSE <<>>])

\* the column dict of a name: the last column with that name
ColumnNamed(asset, name) ==
    LET idx == {k \in 1..Len(asset.columns) : asset.columns[k].name = name}
    IN  asset.columns[CHOOSE k \in idx : \A j \in idx : j <= k]

\* Strategy 1.5 fallback: at most three ID columns present under one name
IdInferenceCap == 3

IdInferenceMappings(upstream, source_asset, target_asset) ==
    LET scols == source_asset.columns
        first(c) == \A k \in 1..(c - 1) : scols[k].name # scols[c].name
        target_names == {target_asset.columns[k].name :
                            k \in 1..Len(target_asset.columns)}
        keep  == [c \in 1..Len(scols) |->
                    LET lname == Lower(scols[c].name)
                    IN  /\ first(c)
                        /\ (lname = "id" \/ EndsWith(lname, "_id")
                            \/ Contains(lname, "id_"))
                        /\ scols[c].name \in target_names]
        pairs == SelectIdx(scols, keep, 1)
        inferred == SubSeq(pairs, 1, Min(IdInferenceCap, Len(pairs)))
    IN  [k \in 1..Len(inferred) |->
            LET name == inferred[k].name
                sc   == ColumnNamed(source_asset, name)
                tc   == ColumnNamed(target_asset, name)
            IN  ColumnLineage(upstream, name, target_asset.id, name, "id_inference",
                    detect_pii_in_column(name, sc.description)[1],
                    (get_enterprise_data_quality_score(name, sc.type, source_asset)
                     + get_enterprise_data_quality_score(name, tc.type, target_asset))
                    \div 2,
                    4)]

TableRelationship(transformations) ==
    LET types == TransTypes(transformations)
    IN  IF "ETL_PIPELINE" \in types THEN "etl_pipeline"
        ELSE IF "ELT_PIPELINE" \in types THEN "elt_pipeline"
        ELSE IF "ID_RELATIONSHIP" \in types THEN "id_relationship"
        ELSE "foreign_key"

Strategy1_5(assets, connectors, logs) ==
    Flatten([a \in 1..Len(assets) |->
        IF ~(/\ IsActive(assets[a], connectors)
             /\ assets[a].type = "Table"
             /\ StartsWith(assets[a].connector_id, "starburst_")) THEN <<>>
        ELSE LET asset  == assets[a]
                 result == get_starburst_table_lineage(asset, assets)
             IN  Flatten([u \in 1..Len(result.tables) |->
                    IF result.tables[u] \notin MapIds(assets, connectors) THEN <<>>
                    ELSE LET up     == result.tables[u]
                             source == AssetMap(assets, connectors, up)
                             given  == TransformationMappings(result.transformations,
                                                              up, source, asset)
                             cl     == IF given # <<>> THEN given
                                       ELSE IdInferenceMappings(up, source, asset)
                             rel    == TableRelationship(result.transformations)
                         IN  IF cl = <<>> THEN <<>>
                             ELSE <<Candidate(FALSE, FALSE, up, asset.id, rel, cl,
                                      "valid",
                                      compute_edge_confidence(rel, cl,
                                          WithQueryLog(result.transformations, logs,
                                                       up, asset.id)),
                                      <<"starburst_metadata">>)>>])])

\* Strategy 2 is skipped once the SQL strategies gave this many edges
MetadataEdgeLimit == 50

\* catalogs of the active Table/View assets, in order of first appearance
CatalogGroups(assets, connectors) ==
    LET keep == [a \in 1..Len(assets) |->
                    /\ IsActive(assets[a], connectors)
                    /\ assets[a].type \in {"Table", "View"}]
        kept  == SelectIdx(assets, keep, 1)
        first == [a \in 1..Len(kept) |->
                    \A k \in 1..(a - 1) : kept[k].catalog # kept[a].catalog]
        heads == SelectIdx(kept, first, 1)
    IN  [g \in 1..Len(heads) |->
            SelectIdx(kept, [a \in 1..Len(kept) |->
                                kept[a].catalog = heads[g].catalog], 1)]

\* Strategy 2: one pair of assets of a catalog
MetadataCandidate(asset1, asset2, logs) ==
    LET cl     == build_column_lineage_from_usage(asset1, asset2)
        name1  == Lower(asset1.name)
        name2  == Lower(asset2.name)
        etl0   == /\ ContainsAny(name1, {"raw", "landing", "source"})
                  /\ ContainsAny(name2, {"processed", "stage", "staged"})
        elt0   == \/ /\ ContainsAny(name1, {"raw", "landing", "source"})
                     /\ ~ContainsAny(name2, {"processed", "stage", "staged"})
                     /\ ContainsAny(name2, {"analytics", "report", "summary"})
                  \/ /\ ContainsAny(name1, {"stage", "staging"})
                     /\ ContainsAny(name2, {"analytics", "final", "production"})
        swap   == /\ ContainsAny(name2, {"raw", "source"})
                  /\ ContainsAny(name1, {"prod", "analytics"})
        view   == ~swap /\ asset1.type = "View" /\ asset2.type = "Table"
        source == IF swap \/ view THEN asset2.id ELSE asset1.id
        target == IF swap \/ view THEN asset1.id ELSE asset2.id
        rel    == IF etl0 \/ swap THEN "etl_pipeline"
                  ELSE IF elt0 THEN "elt_pipeline" ELSE "inferred_from_metadata"
    IN  IF cl.raised
        THEN <<Candidate(TRUE, TRUE, source, target, rel, <<>>, "inferred",
                         compute_edge_confidence(rel, <<>>, <<>>),
                         <<"metadata_inference">>)>>
        ELSE IF Len(cl.mappings) >= 2
        THEN <<Candidate(FALSE, TRUE, source, target, rel, cl.mappings, "inferred",
                         compute_edge_confidence(rel, cl.mappings,
                             WithQueryLog(<<>>, logs, source, target)),
                         <<"metadata_inference">>)>>
        ELSE <<>>

Strategy2(assets, connectors, logs) ==
    LET groups == CatalogGroups(assets, connectors)
    IN  Flatten([g \in 1..Len(groups) |->
            Flatten([i \in 1..Len(groups[g]) |->
                Flatten([j \in 1..Len(groups[g]) |->
                    IF j > i THEN MetadataCandidate(groups[g][i], groups[g][j], logs)
                    ELSE <<>>])])])

\* edges.append(edge), one clock reading per edge; only a checked candidate
\* is dropped when an edge with its source and target is already there
RECURSIVE InsertEdges(_, _, _, _)
InsertEdges(cands, edges, t, key) ==
    IF cands = <<>> THEN edges
    ELSE LET c == Head(cands)
         IN  IF c.checked /\ \E k \in 1..Len(edges) :
                    edges[k].source = c.source /\ edges[k].target = c.target
             THEN InsertEdges(Tail(cands), edges, t, key)
             ELSE InsertEdges(Tail(cands),
                      Append(edges,
                          LineageEdge(c.source, c.target, c.relationship,
                              c.column_lineage, PiiCount(c.column_lineage),
                              AvgQuality(c.column_lineage), c.validation_status,
                              Round3(c.confidence), c.confidence.evidence, c.sources, t,
                              sign_edge(key, c.source, c.target, c.relationship, t))),
                      t + 1, key)

\* the result of a build from all candidates and the edges inserted
BuildResult(assets, connectors, cands, edges) ==
    [raised |-> \E k \in 1..Len(cands) : cands[k].raised,
     nodes  |-> BuildNodes(assets, connectors),
     edges  |-> edges,
     column_relationships |->
         SumSeq([k \in 1..Len(edges) |-> Len(edges[k].column_lineage)])]

\* the metadata candidates meta are inserted after the SQL edges
BuildWithMetadata(assets, connectors, sql, sql_edges, meta, t, key) ==
    BuildResult(assets, connectors, sql \o meta,
                InsertEdges(meta, sql_edges, t + Len(sql_edges), key))

\* Strategy 2 runs only while the SQL strategies gave fewer than 50 edges
BuildAfterSql(assets, connectors, logs, sql, sql_edges, t, key) ==
    BuildWithMetadata(assets, connectors, sql, sql_edges,
                      IF Len(sql_edges) < MetadataEdgeLimit
                      THEN Strategy2(assets, connectors, logs) ELSE <<>>,
                      t, key)

BuildFromSql(assets, connectors, logs, sql, t, key) ==
    BuildAfterSql(assets, connectors, logs, sql,
                  InsertEdges(sql, <<>>, t, key), t, key)

\* nodes and edges of one build, before filtering; raised when a column
\* matcher raised on the way
BuildGraph(assets, connectors, logs, t, key) ==
    BuildFromSql(assets, connectors, logs,
                 Strategy1(assets, connectors, logs)
                 \o Strategy1_5(assets, connectors, logs),
                 t, key)

\* as_of: absent, unparsable, or a timestamp with or without a UTC offset;
\* created_at never carries an offset
NoAsOf == [kind |-> "none", t |-> 0]
AsOf(kind, t) == [kind |-> kind, t |-> t]

\* the comparison of an offset-aware as_of with a created_at raises, and
\* the handler then keeps the unfiltered lists
TemporalFilterApplies(as_of, edges) ==
    \/ as_of.kind = "naive"
    \/ as_of.kind = "aware" /\ edges = <<>>

TemporalFilter(nodes, edges, as_of) ==
    IF TemporalFilterApplies(as_of, edges)
    THEN LET kept == SelectIdx(edges, [k \in 1..Len(edges) |->
                                          edges[k].created_at <= as_of.t], 1)
             ids  == {kept[k].source : k \in 1..Len(kept)}
                     \cup {kept[k].target : k \in 1..Len(kept)}
         IN  [nodes |-> SelectIdx(nodes,
                           [k \in 1..Len(nodes) |-> nodes[k].id \in ids], 1),
              edges |-> kept]
    ELSE [nodes |-> nodes, edges |-> edges]

\* GraphStore, JSON backend (graph_store.py:26-63): nodes keyed by id,
\* edges a list that every call extends
RECURSIVE upsert_nodes(_, _)
upsert_nodes(stored, nodes) ==
    IF nodes = <<>> THEN stored
    ELSE LET n   == Head(nodes)
             pos == {k \in 1..Len(stored) : stored[k].id = n.id}
         IN  upsert_nodes(IF pos = {} THEN Append(stored, n)
                          ELSE [stored EXCEPT ![CHOOSE k \in pos : TRUE] = n],
                          Tail(nodes))

upsert_edges(stored, edges) == stored \o edges

\* GraphStore() (graph_store.py:8-20): the backend named by the environment;
\* neo4j only with a URI, and back to json when the driver cannot be made
\* a constructor that keeps the backend it was asked for
GraphStore_strict(env, init_ok) ==
    [backend |-> env.backend, driver |-> env.backend = "neo4j" /\ env.uri /\ init_ok,
     configured |-> env.backend,
     init_ok |-> IF env.backend = "neo4j" /\ env.uri THEN init_ok ELSE TRUE]

GraphStore(env, init_ok) ==
    IF env.backend = "neo4j" /\ env.uri
    THEN [backend |-> IF init_ok THEN "neo4j" ELSE "json", driver |-> init_ok,
          configured |-> env.backend, init_ok |-> init_ok]
    ELSE [backend |-> env.backend, driver |-> FALSE,
          configured |-> env.backend, init_ok |-> TRUE]

UsesNeo4j(gs) == gs.backend = "neo4j" /\ gs.driver

\* what one GraphStore can meet: the driver is made or not, and each of the
\* two cypher runs succeeds or raises; without neo4j nothing can fail
GraphStoreOutcomes(env) ==
    IF env.backend = "neo4j" /\ env.uri
    THEN {<<TRUE, TRUE, TRUE>>, <<TRUE, TRUE, FALSE>>, <<TRUE, FALSE, TRUE>>,
          <<TRUE, FALSE, FALSE>>, <<FALSE, FALSE, FALSE>>}
    ELSE {<<TRUE, FALSE, FALSE>>}

\* MERGE (a:Asset {id}) per node, MERGE (s)-[r:REL {sig}]->(t) per edge
EdgeSig(e) == IF e.edge_signature = NoSignature THEN <<e.relationship>>
              ELSE e.edge_signature
Neo4jMergeNodes(db, nodes) ==
    [db EXCEPT !.nodes = @ \cup {nodes[k].id : k \in 1..Len(nodes)}]
Neo4jMergeEdges(db, edges) ==
    [nodes |-> db.nodes \cup {edges[k].source : k \in 1..Len(edges)}
                        \cup {edges[k].target : k \in 1..Len(edges)},
     edges |-> db.edges \cup {<<edges[k].source, edges[k].target, EdgeSig(edges[k])>> :
                                 k \in 1..Len(edges)}]

\* GraphStore.upsert_nodes / upsert_edges: the cypher run when neo4j is in
\* use and succeeds, the JSON document otherwise
GraphStore_upsert_nodes(gs, run_ok, st, db, nodes) ==
    IF UsesNeo4j(gs) /\ run_ok
    THEN [store |-> st, neo4j |-> Neo4jMergeNodes(db, nodes)]
    ELSE [store |-> [st EXCEPT !.nodes = upsert_nodes(@, nodes)], neo4j |-> db]
GraphStore_upsert_edges(gs, run_ok, st, db, edges) ==
    IF UsesNeo4j(gs) /\ run_ok
    THEN [store |-> st, neo4j |-> Neo4jMergeEdges(db, edges)]
    ELSE [store |-> [st EXCEPT !.edges = upsert_edges(@, edges)], neo4j |-> db]

DefaultPageSize == 1000

\* a pagination that cuts the node list and hands back every edge
Paginate_alledges(nodes, edges, page, page_size) ==
    LET page_size_int == IF page_size # 0 THEN page_size ELSE DefaultPageSize
    IN  IF page_size_int > 0 /\ page_size_int < Len(nodes)
        THEN [nodes |-> SubSeq(nodes, page * page_size_int + 1,
                               Min(Len(nodes), page * page_size_int + page_size_int)),
              edges |-> edges]
        ELSE [nodes |-> nodes, edges |-> edges]

\* page_size 0 reads as the default; the page is cut only when it is
\* smaller than the node list
Paginate(nodes, edges, page, page_size) ==
    LET page_size_int == IF page_size # 0 THEN page_size ELSE DefaultPageSize
    IN  IF page_size_int > 0 /\ page_size_int < Len(nodes)
        THEN LET start == page * page_size_int
                 paged == SubSeq(nodes, start + 1,
                                 Min(Len(nodes), start + page_size_int))
                 ids   == {paged[k].id : k \in 1..Len(paged)}
             IN  [nodes |-> paged,
                  edges |-> SelectIdx(edges, [k \in 1..Len(edges) |->
                               edges[k].source \in ids /\ edges[k].target \in ids], 1)]
        ELSE [nodes |-> nodes, edges |-> edges]

\* a snapshot writer that keeps the latest snapshot only
save_lineage_snapshot_latest(snapshots, data, t, key) ==
    <<[created_at |-> t, data |-> data, signed |-> key # NoKey]>>

save_lineage_snapshot(snapshots, data, t, key) ==
    Append(snapshots, [created_at |-> t, data |-> data,
                       signed |-> key # NoKey])

(***************************************************************************)
(* The lineage endpoint and the connector endpoints as actions             *)
(***************************************************************************)
\* calls of GET /api/lineage at clock reading t: page, page_size, as_of,
\* snapshot
LineageCalls(t) ==
    {<<0, 0, NoAsOf, FALSE>>,
     <<0, 0, NoAsOf, TRUE>>,
     <<0, 0, AsOf("invalid", 0), FALSE>>,
     <<0, 0, AsOf("naive", t - 1), FALSE>>,
     <<0, 0, AsOf("naive", t + 1), FALSE>>,
     <<0, 0, AsOf("aware", t - 1), FALSE>>,
     <<0, 3, NoAsOf, FALSE>>,
     <<1, 3, AsOf("naive", t + 1), FALSE>>}
ConnectorIds == {"bq_1", "starburst_1", "ghost_1"}

\* GET /api/lineage after the build b: temporal filter, store upsert,
\* pagination, snapshot
get_data_lineage(b, page, page_size, as_of, snapshot, oc) ==
    IF b.raised
    THEN /\ response' = [status |-> "error", code |-> 500, snapshot |-> snapshot,
                         at |-> now]
         /\ UNCHANGED <<store, neo4j, now>>
    ELSE \E f \in {TemporalFilter(b.nodes, b.edges, as_of)} :
         \E p \in {Paginate(f.nodes, f.edges, page, page_size)} :
         \E t \in {now + Len(b.edges)} :
         \E gs \in {GraphStore(graph_env, oc[1])} :
         \E un \in {GraphStore_upsert_nodes(gs, oc[2], store, neo4j, f.nodes)} :
         \E ue \in {GraphStore_upsert_edges(gs, oc[3], un.store, un.neo4j, f.edges)} :
            /\ response' = [status |-> "ok", code |-> 200,
                            nodes |-> p.nodes, edges |-> p.edges,
                            column_relationships |-> b.column_relationships,
                            as_of |-> as_of,
                            build_nodes |-> b.nodes, build_edges |-> b.edges,
                            connectors |-> active_connectors,
                            page |-> page, page_size |-> page_size,
                            filtered_nodes |-> f.nodes, filtered_edges |-> f.edges,
                            snapshot |-> snapshot, graph_store |-> gs,
                            runs |-> <<oc[2], oc[3]>>, at |-> now]
            /\ store' = IF snapshot
                        THEN [ue.store EXCEPT !.snapshots =
                                 save_lineage_snapshot(@,
                                     [nodes |-> p.nodes, edges |-> p.edges,
                                      column_relationships |->
                                          b.column_relationships],
                                     t, signing_key)]
                        ELSE ue.store
            /\ neo4j' = ue.neo4j
            /\ now' = IF snapshot THEN t + 1 ELSE t

\* POST /api/connectors/{id}/toggle (main.py:1880-1891)
toggle_connector(connector_id) ==
    LET pos == {k \in 1..Len(active_connectors) :
                   active_connectors[k].id = connector_id}
    IN  /\ IF pos = {} THEN UNCHANGED active_connectors
           ELSE LET k == CHOOSE i \in pos : \A j \in pos : i <= j
                IN  active_connectors' =
                        [active_connectors EXCEPT ![k].enabled = ~@]
        /\ UNCHANGED <<discovered_assets, query_logs, store, now, response>>

\* DELETE /api/connectors/{id} (main.py:1893-1932)
delete_connector(connector_id) ==
    /\ IF \E k \in 1..Len(active_connectors) : active_connectors[k].id = connector_id
       THEN /\ active_connectors' =
                   SelectIdx(active_connectors,
                       [k \in 1..Len(active_connectors) |->
                           active_connectors[k].id # connector_id], 1)
            /\ discovered_assets' =
                   SelectIdx(discovered_assets,
                       [k \in 1..Len(discovered_assets) |->
                           discovered_assets[k].connector_id # connector_id], 1)
       ELSE UNCHANGED <<active_connectors, discovered_assets>>
    /\ UNCHANGED <<query_logs, store, now, response>>

Init ==
    /\ active_connectors = RegisteredConnectors
    /\ discovered_assets = RegisteredAssets
    /\ query_logs = <<>>
    /\ store = EmptyStore
    /\ now = 0
    /\ response = [status |-> "none"]
    /\ signing_key \in {NoKey, "k1"}
    /\ proposals = <<>>
    /\ cur_result = [status |-> "none"]
    /\ conf_in = NoScore
    /\ conf_out = NoScore
    /\ IdleSigning /\ IdlePaging /\ IdleArtifacts /\ IdleBackend /\ IdleWriters

\* GET /api/lineage: one build per call, then every choice of parameters
GetDataLineage ==
    /\ now < MaxGraphClock
    /\ \E b \in {BuildGraph(discovered_assets, active_connectors, query_logs,
                            now, signing_key)} :
       \E call \in LineageCalls(now) :
       \E oc \in GraphStoreOutcomes(graph_env) :
          get_data_lineage(b, call[1], call[2], call[3], call[4], oc)
    /\ UNCHANGED <<active_connectors, discovered_assets, query_logs>>
    /\ UNCHANGED <<confVars, curVars, signing_key>>
    /\ UNCHANGED <<signVars, page_in, artifactVars, graph_env, writerVars>>

ToggleConnector ==
    /\ \E connector_id \in ConnectorIds : toggle_connector(connector_id)
    /\ UNCHANGED <<confVars, curVars, signing_key>>
    /\ UNCHANGED <<signVars, page_in, artifactVars, backendVars, writerVars>>

DeleteConnector ==
    /\ \E connector_id \in ConnectorIds : delete_connector(connector_id)
    /\ UNCHANGED <<confVars, curVars, signing_key>>
    /\ UNCHANGED <<signVars, page_in, artifactVars, backendVars, writerVars>>

Next == GetDataLineage \/ ToggleConnector \/ DeleteConnector

Spec == Init /\ [][Next]_vars

(***************************************************************************)
(* SpecBuild: the lineage endpoint over a choice of registries             *)
(* (assets.json, the connector list and the query log as the call finds    *)
(* them).  Discovery appends an asset per scan without looking for an      *)
(* earlier entry (main.py:329, 484, 708), so an asset can be listed twice. *)
(***************************************************************************)
ThreeColumns == <<Column("id", "INTEGER"), Column("amount", "FLOAT"),
                  Column("region", "STRING")>>

\* two BigQuery tables of one dataset with the same three columns, no SQL
DupA == Asset("p.d.a", "a", "Table", "p", "d", "bq_1", ThreeColumns, "", <<>>, <<>>)
DupB == Asset("p.d.b", "b", "Table", "p", "d", "bq_1", ThreeColumns, "", <<>>, <<>>)
\* the same b with a definition that reads the three columns of a
DupBSql == Asset("p.d.b", "b", "Table", "p", "d", "bq_1", ThreeColumns,
                 "select id, amount, region from a", <<>>, <<>>)

\* two Starburst tables that share the column "id" only
IdA == Asset("c.s.a", "a", "Table", "c", "s", "starburst_1",
             <<Column("id", "INTEGER"), Column("email", "VARCHAR")>>, "", <<>>, <<>>)
IdB == Asset("c.s.b", "b", "Table", "c", "s", "starburst_1",
             <<Column("id", "INTEGER"), Column("user_email", "VARCHAR")>>, "", <<>>, <<>>)

\* a raw and a stage table of one Starburst catalog with three ID columns
PipelineColumns == <<Column("id", "INTEGER"), Column("user_id", "INTEGER"),
                     Column("ref_id", "VARCHAR")>>
RawEvents == Asset("c.s.raw_events", "raw_events", "Table", "c", "s", "starburst_1",
                   PipelineColumns, "", <<>>, <<>>)
StageEvents == Asset("c.s.stage_events", "stage_events", "Table", "c", "s",
                     "starburst_1", PipelineColumns, "", <<>>, <<>>)

\* a BigQuery view over p.d.orders whose definition names the column "id",
\* and the view of the registry with a SQL text that cannot be fetched
SqlView == Asset("p.d.v_sql", "v_sql", "View", "p", "d", "bq_1",
                 <<Column("id", "INTEGER")>>, "select id from orders",
                 <<"p.d.orders">>, <<>>)
BrokenView == Unavailable(RegisteredAssets[2])

\* a view listed before the table it is built from, with the view's SQL
ViewFirst == <<Asset("p.d.v_b", "v_b", "View", "p", "d", "bq_1",
                     <<Column("id", "INTEGER"), Column("amount", "FLOAT")>>,
                     "select id, amount from t_b", <<>>, <<>>),
               Asset("p.d.t_b", "t_b", "Table", "p", "d", "bq_1",
                     <<Column("id", "INTEGER"), Column("amount", "FLOAT")>>,
                     "", <<>>, <<>>)>>

EventLog == <<[sql |-> "insert into raw_events select * from stage_events"]>>

Registry(assets, logs) == [assets |-> assets, logs |-> logs]

BuildRegistries ==
    {Registry(RegisteredAssets, <<>>),
     Registry(<<DupA, DupB, DupA, DupB>>, <<>>),
     Registry(<<DupA, DupBSql, DupA, DupBSql>>, <<>>),
     Registry(<<IdA, IdB>>, <<>>),
     Registry(<<RawEvents, StageEvents>>, <<>>),
     Registry(<<RawEvents, StageEvents>>, EventLog),
     Registry(<<RegisteredAssets[1], BrokenView, RegisteredAssets[3],
                RegisteredAssets[4]>>, <<>>),
     Registry(<<RegisteredAssets[1], SqlView, RegisteredAssets[3],
                RegisteredAssets[4]>>, <<>>),
     Registry(ViewFirst, <<>>)}

InitBuild ==
    /\ active_connectors = RegisteredConnectors
    /\ \E r \in BuildRegistries :
          discovered_assets = r.assets /\ query_logs = r.logs
    /\ store = EmptyStore
    /\ now = 0
    /\ response = [status |-> "none"]
    /\ signing_key = "k1"
    /\ proposals = <<>>
    /\ cur_result = [status |-> "none"]
    /\ conf_in = NoScore
    /\ conf_out = NoScore
    /\ IdleSigning /\ IdlePaging /\ IdleArtifacts /\ IdleBackend /\ IdleWriters

NextBuild == GetDataLineage

SpecBuild == InitBuild /\ [][NextBuild]_vars



(***************************************************************************)
(* Raw artifacts and their reconciliation (lineage.py:93-221, 1932-2017).  *)
(* A dict key that is absent or None is Missing; a list that is absent or  *)
(* None reads as the empty list, as ".get(...) or []" makes it.            *)
(***************************************************************************)
\* "not x" for a name: None or the empty string
Falsy(x) == x = Missing \/ x = ""
Truthy(x) == ~Falsy(x)

\* the edge every adapter builds: fixed confidence, its own name as the only
\* evidence and the only source, stamped and signed when it is built
\* an adapter edge that is nudged by a matching query log as built edges are
ReconciledEdge_nudged(source, target, relationship, confidence, adapter, t, key) ==
    LineageEdge(source, target, relationship, <<>>, 0, 9500, "valid",
                Min(1000, confidence + 50), <<adapter, "query_log">>,
                <<adapter, "runtime_logs">>, t,
                sign_edge(key, source, target, relationship, t))
ReconciledEdge(source, target, relationship, confidence, adapter, t, key) ==
    LineageEdge(source, target, relationship, <<>>, 0, 9500, "valid", confidence,
                <<adapter>>, <<adapter>>, t,
                sign_edge(key, source, target, relationship, t))

\* the k-th edge of a reconcile run is built at clock reading t + k - 1
StampEdges(stubs, confidence, adapter, t, key) ==
    [k \in 1..Len(stubs) |->
        ReconciledEdge(stubs[k][1], stubs[k][2], stubs[k][3], confidence, adapter,
                       t + k - 1, key)]

OpenLineageConfidence == 800
DbtConfidence == 750
AirflowConfidence == 600
MetadataConfidence == 700

\* inputs x outputs of every stored event; a dataset is called by its name,
\* or by its namespace when it has no name
DatasetName(d) == IF Truthy(d.name) THEN d.name ELSE d.namespace
OpenLineageInputStubs(inp, outputs) ==
    IF Falsy(DatasetName(inp)) THEN <<>>
    ELSE LET outs == SelectSeq(outputs, LAMBDA o : Truthy(DatasetName(o)))
         IN  [k \in 1..Len(outs) |->
                 <<DatasetName(inp), DatasetName(outs[k]), "openlineage_job">>]
OpenLineageStubs(entries) ==
    Flatten([b \in 1..Len(entries) |->
        Flatten([i \in 1..Len(entries[b].event.inputs) |->
            OpenLineageInputStubs(entries[b].event.inputs[i],
                                  entries[b].event.outputs)])])
reconcile_openlineage_to_edges(st, t, key) ==
    StampEdges(OpenLineageStubs(st.openlineage), OpenLineageConfidence,
               "openlineage", t, key)

\* dependency -> node for every node with a name and every dependency
\* that is not empty
\* an adapter that takes every record as it comes
DbtNodeStubs_unchecked(node) ==
    [k \in 1..Len(node.depends_on) |->
        <<node.depends_on[k], node.name, "dbt_dependency">>]
DbtNodeStubs(node) ==
    IF Falsy(node.name) THEN <<>>
    ELSE LET deps == SelectSeq(node.depends_on, Truthy)
         IN  [k \in 1..Len(deps) |-> <<deps[k], node.name, "dbt_dependency">>]
DbtStubs(batches) ==
    Flatten([b \in 1..Len(batches) |->
        Flatten([i \in 1..Len(batches[b].nodes) |->
            DbtNodeStubs(batches[b].nodes[i])])])
reconcile_dbt_to_edges(st, t, key) ==
    StampEdges(DbtStubs(st.dbt), DbtConfidence, "dbt", t, key)

\* upstream -> task for every task with an id and every upstream that is
\* not empty
\* an adapter that builds an edge for a task without an id as well
AirflowTaskStubs_unchecked(task) ==
    LET ups == SelectSeq(task.upstream, Truthy)
    IN  [k \in 1..Len(ups) |-> <<ups[k], task.task_id, "airflow_upstream">>]
AirflowTaskStubs(task) ==
    IF Falsy(task.task_id) THEN <<>>
    ELSE LET ups == SelectSeq(task.upstream, Truthy)
         IN  [k \in 1..Len(ups) |-> <<ups[k], task.task_id, "airflow_upstream">>]
AirflowStubs(batches) ==
    Flatten([b \in 1..Len(batches) |->
        Flatten([i \in 1..Len(batches[b].tasks) |->
            AirflowTaskStubs(batches[b].tasks[i])])])
reconcile_airflow_to_edges(st, t, key) ==
    StampEdges(AirflowStubs(st.airflow), AirflowConfidence, "airflow", t, key)

\* one edge per relationship record with a source and a target; the record's
\* type when it has one
MetadataStubs(batches) ==
    Flatten([b \in 1..Len(batches) |->
        LET rels == SelectSeq(batches[b].payload.relationships,
                              LAMBDA r : Truthy(r.source) /\ Truthy(r.target))
        IN  [k \in 1..Len(rels) |->
                <<rels[k].source, rels[k].target,
                  IF rels[k].type = Missing THEN "metadata_relationship"
                  ELSE rels[k].type>>]])
reconcile_metadata_to_edges(st, t, key) ==
    StampEdges(MetadataStubs(st.metadata), MetadataConfidence, "metadata", t, key)

\* the four adapters in the order reconcile_artifacts runs them, each one
\* starting at the clock reading the one before it ended on
ReconcileAfterAirflow(st, key, ol, dbt, af, t) ==
    [openlineage |-> ol, dbt |-> dbt, airflow |-> af,
     metadata |-> reconcile_metadata_to_edges(st, t, key)]
ReconcileAfterDbt(st, key, ol, dbt, t) ==
    ReconcileAfterAirflow(st, key, ol, dbt, reconcile_airflow_to_edges(st, t, key),
                          t + Len(AirflowStubs(st.airflow)))
ReconcileAfterOpenLineage(st, key, ol, t) ==
    ReconcileAfterDbt(st, key, ol, reconcile_dbt_to_edges(st, t, key),
                      t + Len(DbtStubs(st.dbt)))
ReconcileAll(st, t, key) ==
    ReconcileAfterOpenLineage(st, key, reconcile_openlineage_to_edges(st, t, key),
                              t + Len(OpenLineageStubs(st.openlineage)))
NewEdges(by) == by.openlineage \o by.dbt \o by.airflow \o by.metadata

\* what is kept of the last ingest or reconcile call, "at" being the clock
\* reading it was made at
ArtifactResult(op, x_role, code, payload, by, gs) ==
    [status |-> "returned", op |-> op, x_role |-> x_role, code |-> code,
     payload |-> payload, by_adapter |-> by, graph_store |-> gs, at |-> now]
NoEdgesBy == [openlineage |-> <<>>, dbt |-> <<>>, airflow |-> <<>>, metadata |-> <<>>]
NoGraphStore == [backend |-> "none", driver |-> FALSE, configured |-> "none",
                 init_ok |-> TRUE]
NoPayload == [none |-> TRUE]

\* POST /lineage/ingest/{dbt,airflow,openlineage,metadata}: the batch is
\* stamped and appended to the list of its kind; the role gate's 403 leaves
\* as a 500 like every other exception
\* an ingest that reconciles what it has just stored
Ingest_reconciling(kind, batch, payload, x_role) ==
    IF RequireRoleRaises(AdminRole, x_role)
    THEN /\ artifact_result' = ArtifactResult(kind, x_role, 500, payload,
                                              NoEdgesBy, NoGraphStore)
         /\ UNCHANGED <<store, now>>
    ELSE \E st \in {[store EXCEPT ![kind] = Append(@, batch)]} :
         \E by \in {ReconcileAll(st, now + 1, signing_key)} :
            /\ store' = [st EXCEPT !.edges = upsert_edges(@, NewEdges(by))]
            /\ now' = now + 1 + Len(NewEdges(by))
            /\ artifact_result' = ArtifactResult(kind, x_role, 200, payload,
                                                 NoEdgesBy, NoGraphStore)
Ingest(kind, batch, payload, x_role) ==
    IF RequireRoleRaises(AdminRole, x_role)
    THEN /\ artifact_result' = ArtifactResult(kind, x_role, 500, payload,
                                              NoEdgesBy, NoGraphStore)
         /\ UNCHANGED <<store, now>>
    ELSE /\ store' = [store EXCEPT ![kind] = Append(@, batch)]
         /\ now' = now + 1
         /\ artifact_result' = ArtifactResult(kind, x_role, 200, payload,
                                              NoEdgesBy, NoGraphStore)

ingest_dbt(payload, x_role) ==
    Ingest("dbt", [received_at |-> now, nodes |-> payload.nodes], payload, x_role)
ingest_airflow(payload, x_role) ==
    Ingest("airflow", [received_at |-> now, dag_id |-> payload.dag_id,
                       tasks |-> payload.tasks], payload, x_role)
ingest_openlineage(payload, x_role) ==
    Ingest("openlineage", [received_at |-> now, event |-> payload], payload, x_role)
ingest_metadata(payload, x_role) ==
    Ingest("metadata", [received_at |-> now, payload |-> payload], payload, x_role)

\* POST /lineage/reconcile
reconcile_artifacts(x_role, oc) ==
    IF RequireRoleRaises(AdminRole, x_role)
    THEN /\ artifact_result' = ArtifactResult("reconcile", x_role, 403, NoPayload,
                                              NoEdgesBy, NoGraphStore)
         /\ UNCHANGED <<store, neo4j, now>>
    ELSE \E by \in {ReconcileAll(store, now, signing_key)} :
         \E gs \in {GraphStore(graph_env, oc[1])} :
         \E ue \in {GraphStore_upsert_edges(gs, oc[3], store, neo4j, NewEdges(by))} :
            /\ store' = ue.store
            /\ neo4j' = ue.neo4j
            /\ now' = now + Len(NewEdges(by))
            /\ artifact_result' = ArtifactResult("reconcile", x_role, 200, NoPayload,
                                                 by, gs)

(***************************************************************************)
(* The store under ingests, reconciles and lineage calls, one at a time    *)
(***************************************************************************)
MaxBatches == 1
MaxStoreClock == 3
MaxNeo4jClock == 2

\* how long a run is followed: shorter where neo4j is asked for and every
\* GraphStore call branches on what the driver does
StoreClockLimit ==
    IF graph_env.backend = "neo4j" THEN MaxNeo4jClock ELSE MaxStoreClock

DbtPayloads ==
    {[nodes |-> <<[name |-> "b", depends_on |-> <<"a">>]>>],
     [nodes |-> <<[name |-> "", depends_on |-> <<"a">>],
                  [name |-> "c", depends_on |-> <<"", "a", "b">>],
                  [name |-> Missing, depends_on |-> <<"b">>],
                  [name |-> "d", depends_on |-> <<>>]>>]}
AirflowPayloads ==
    {[dag_id |-> "d1",
      tasks |-> <<[task_id |-> "t2", upstream |-> <<"t1", "">>],
                  [task_id |-> Missing, upstream |-> <<"t1">>]>>]}
OpenLineagePayloads ==
    {[inputs |-> <<[name |-> "a", namespace |-> "ns"],
                   [name |-> "", namespace |-> Missing]>>,
      outputs |-> <<[name |-> Missing, namespace |-> "out"]>>]}
MetadataPayloads ==
    {[relationships |-> <<[source |-> "a", target |-> "b", type |-> "owns"],
                          [source |-> "b", target |-> "c", type |-> Missing],
                          [source |-> "", target |-> "c", type |-> "owns"]>>]}
ArtifactRoles == {RoleClaim("admin"), RoleClaim("viewer")}

GraphEnvs ==
    {[backend |-> "json", uri |-> FALSE], [backend |-> "neo4j", uri |-> FALSE],
     [backend |-> "neo4j", uri |-> TRUE]}

\* snapshot or not, everything else at its default
StoreLineageCalls == {<<0, 0, NoAsOf, FALSE>>, <<0, 0, NoAsOf, TRUE>>}

InitStore ==
    /\ active_connectors = <<Connector("bq_1")>>
    /\ discovered_assets = SubSeq(RegisteredAssets, 1, 2)
    /\ query_logs = <<>>
    /\ store = EmptyStore
    /\ now = 0
    /\ response = [status |-> "none"]
    /\ signing_key = "k1"
    /\ proposals = <<>>
    /\ cur_result = [status |-> "none"]
    /\ conf_in = NoScore
    /\ conf_out = NoScore
    /\ graph_env \in GraphEnvs
    /\ neo4j = [nodes |-> {}, edges |-> {}]
    /\ IdleSigning /\ IdlePaging /\ IdleArtifacts /\ IdleWriters

ArtifactFrame ==
    /\ UNCHANGED <<active_connectors, discovered_assets, query_logs, response>>
    /\ UNCHANGED <<confVars, curVars, signing_key, signVars, page_in, graph_env,
                   writerVars>>

IngestDbt ==
    /\ now < StoreClockLimit /\ Len(store.dbt) < MaxBatches
    /\ \E payload \in DbtPayloads, x_role \in ArtifactRoles :
          ingest_dbt(payload, x_role)
    /\ UNCHANGED neo4j /\ ArtifactFrame

IngestAirflow ==
    /\ now < StoreClockLimit /\ Len(store.airflow) < MaxBatches
    /\ \E payload \in AirflowPayloads, x_role \in ArtifactRoles :
          ingest_airflow(payload, x_role)
    /\ UNCHANGED neo4j /\ ArtifactFrame

IngestOpenLineage ==
    /\ now < StoreClockLimit /\ Len(store.openlineage) < MaxBatches
    /\ \E payload \in OpenLineagePayloads, x_role \in ArtifactRoles :
          ingest_openlineage(payload, x_role)
    /\ UNCHANGED neo4j /\ ArtifactFrame

IngestMetadata ==
    /\ now < StoreClockLimit /\ Len(store.metadata) < MaxBatches
    /\ \E payload \in MetadataPayloads, x_role \in ArtifactRoles :
          ingest_metadata(payload, x_role)
    /\ UNCHANGED neo4j /\ ArtifactFrame

Reconcile ==
    /\ now < StoreClockLimit
    /\ \E x_role \in ArtifactRoles, oc \in GraphStoreOutcomes(graph_env) :
          reconcile_artifacts(x_role, oc)
    /\ ArtifactFrame

StoreLineage ==
    /\ now < StoreClockLimit
    /\ \E b \in {BuildGraph(discovered_assets, active_connectors, query_logs,
                            now, signing_key)} :
       \E call \in StoreLineageCalls :
       \E oc \in GraphStoreOutcomes(graph_env) :
          get_data_lineage(b, call[1], call[2], call[3], call[4], oc)
    /\ UNCHANGED <<active_connectors, discovered_assets, query_logs>>
    /\ UNCHANGED <<confVars, curVars, signing_key>>
    /\ UNCHANGED <<signVars, page_in, artifactVars, graph_env, writerVars>>

NextStore ==
    \/ IngestDbt \/ IngestAirflow \/ IngestOpenLineage \/ IngestMetadata
    \/ Reconcile \/ StoreLineage

SpecStore == InitStore /\ [][NextStore]_vars


(***************************************************************************)
(* The pagination step on its own (lineage.py:1376-1413): node lists of a  *)
(* few nodes and of about the default page size, with edges among them     *)
(***************************************************************************)
MaxPageNodes == 4
MaxPage == 2
MaxPageSize == 3

PageNodeCounts ==
    (0..MaxPageNodes)
    \cup {DefaultPageSize - 1, DefaultPageSize, DefaultPageSize + 1}

\* node k of a build, and an edge between two of them
PageNode(k) == [id |-> k]
PageEdge(i, j) == [source |-> i, target |-> j]

\* the edges 1->2, 2->3, 3->1, n->1, 2->n as far as their nodes exist
PageEdgesAmong(n) ==
    SelectSeq(<<PageEdge(1, 2), PageEdge(2, 3), PageEdge(3, 1), PageEdge(n, 1),
                PageEdge(2, n)>>,
              LAMBDA e : e.source \in 1..n /\ e.target \in 1..n)

InitPage ==
    /\ active_connectors = <<>>
    /\ discovered_assets = <<>>
    /\ query_logs = <<>>
    /\ store = EmptyStore
    /\ now = 0
    /\ response = [status |-> "none"]
    /\ proposals = <<>>
    /\ cur_result = [status |-> "none"]
    /\ conf_in = NoScore
    /\ conf_out = NoScore
    /\ signing_key = NoKey
    /\ \E n \in PageNodeCounts :
       \E m \in 0..Len(PageEdgesAmong(n)) :
          page_in = [nodes |-> [k \in 1..n |-> PageNode(k)],
                     edges |-> SubSeq(PageEdgesAmong(n), 1, m)]
    /\ IdleSigning /\ IdleArtifacts /\ IdleBackend /\ IdleWriters

\* the response get_data_lineage assembles from the lists it has built
PageResponse(p, page, page_size) ==
    [status |-> "ok", code |-> 200, nodes |-> p.nodes, edges |-> p.edges,
     page |-> page, page_size |-> page_size,
     filtered_nodes |-> page_in.nodes, filtered_edges |-> page_in.edges]

PageLineage ==
    /\ \E page \in 0..MaxPage, page_size \in 0..MaxPageSize :
       \E p \in {Paginate(page_in.nodes, page_in.edges, page, page_size)} :
          response' = PageResponse(p, page, page_size)
    /\ UNCHANGED <<confVars, active_connectors, discovered_assets, query_logs,
                   store, now, curVars, signing_key>>
    /\ UNCHANGED <<signVars, page_in, artifactVars, backendVars, writerVars>>

NextPage == PageLineage

SpecPage == InitPage /\ [][NextPage]_vars


(***************************************************************************)
(* Writers of lineage_store.json that run at the same time (several server *)
(* processes on one file).  Every write is load, modify, save              *)
(* (lineage.py:63-76, 1937-1942; graph_store.py:60-79); a save opens the   *)
(* file for writing, which empties it, and then writes the document.       *)
(***************************************************************************)
MaxWrites == 1

Writers == 1..3
WriterOp(w) == CASE w = 1 -> "snapshot" [] w = 2 -> "ingest" [] w = 3 -> "upsert"

\* the modify step of each kind of write
ApplyWrite(op, doc, t, key) ==
    CASE op = "snapshot" ->
           [doc EXCEPT !.snapshots =
               save_lineage_snapshot(@, [nodes |-> <<>>, edges |-> <<>>,
                                         column_relationships |-> 0], t, key)]
      [] op = "ingest" ->
           [doc EXCEPT !.dbt =
               Append(@, [received_at |-> t,
                          nodes |-> <<[name |-> "b", depends_on |-> <<"a">>]>>])]
      [] op = "upsert" ->
           [doc EXCEPT !.edges =
               upsert_edges(@, <<ReconciledEdge("a", "b", "dbt_dependency",
                                                DbtConfidence, "dbt", t, key)>>)]

\* json.load of the file: the document, or the caller's default when the
\* file is being written or is left unreadable
LoadStore(file, doc) == IF file = "whole" THEN doc ELSE EmptyStore

Writing(w) == writers.procs[w].pc = "writing"

InitWriters ==
    /\ active_connectors = <<>>
    /\ discovered_assets = <<>>
    /\ query_logs = <<>>
    /\ store = EmptyStore
    /\ now = 0
    /\ response = [status |-> "none"]
    /\ proposals = <<>>
    /\ cur_result = [status |-> "none"]
    /\ conf_in = NoScore
    /\ conf_out = NoScore
    /\ signing_key = NoKey
    /\ writers = [procs |-> [w \in Writers |->
                                [pc |-> "idle", doc |-> EmptyStore, done |-> 0]],
                  file |-> "whole"]
    /\ IdleSigning /\ IdlePaging /\ IdleArtifacts /\ IdleBackend

WriterFrame ==
    /\ UNCHANGED <<confVars, active_connectors, discovered_assets, query_logs,
                   now, response, curVars, signing_key>>
    /\ UNCHANGED <<signVars, page_in, artifactVars, backendVars>>

\* a writer loads the document and makes its change to its own copy
WriterLoad ==
    /\ \E w \in Writers :
          /\ writers.procs[w].pc = "idle"
          /\ writers.procs[w].done < MaxWrites
          /\ writers' = [writers EXCEPT
                 !.procs[w].pc = "loaded",
                 !.procs[w].doc = ApplyWrite(WriterOp(w),
                                             LoadStore(writers.file, store),
                                             now, signing_key)]
    /\ UNCHANGED store /\ WriterFrame

\* open(path, 'w'): the file is emptied; it is unreadable until the dump is
\* through, and two dumps at once write over each other
WriterOpen ==
    /\ \E w \in Writers :
          /\ writers.procs[w].pc = "loaded"
          /\ writers' = [writers EXCEPT
                 !.procs[w].pc = "writing",
                 !.file = IF \E o \in Writers \ {w} : Writing(o)
                          THEN "clobbered" ELSE "torn"]
    /\ UNCHANGED store /\ WriterFrame

\* json.dump is through and the file is closed: the file holds this
\* writer's document, unless another dump is still going on or went on at
\* the same time, when it may as well be left unreadable
WriterClose ==
    /\ \E w \in Writers :
          /\ writers.procs[w].pc = "writing"
          /\ IF \E o \in Writers \ {w} : Writing(o)
             THEN /\ writers' = [writers EXCEPT !.procs[w].pc = "idle",
                                                !.procs[w].done = @ + 1]
                  /\ UNCHANGED store
             ELSE \/ /\ store' = writers.procs[w].doc
                     /\ writers' = [writers EXCEPT !.procs[w].pc = "idle",
                                                   !.procs[w].done = @ + 1,
                                                   !.file = "whole"]
                  \/ /\ writers.file = "clobbered"
                     /\ UNCHANGED store
                     /\ writers' = [writers EXCEPT !.procs[w].pc = "idle",
                                                   !.procs[w].done = @ + 1,
                                                   !.file = "torn"]
    /\ WriterFrame

NextWriters == WriterLoad \/ WriterOpen \/ WriterClose

SpecWriters == InitWriters /\ [][NextWriters]_vars

(***************************************************************************)
(* The signer on its own: two edges are signed over and over with one key  *)
(***************************************************************************)
MaxSignRounds == 2

SigningKeys == {NoKey, "", "k1", "k2"}

\* edges that vary in the four signed fields and in two unsigned ones
SignableEdges ==
    {LineageEdge(src, tgt, rel, <<>>, 0, 9500, "valid", conf, ev, ev, t, NoSignature) :
        src \in {"a", "b"}, tgt \in {"b", "c"},
        rel \in {"dbt_dependency", "feeds_into"}, t \in {0, 1},
        conf \in {750}, ev \in {<<"dbt">>, <<"user">>}}
    \cup {LineageEdge("a", "b", "feeds_into", <<>>, 0, 9500, "valid", 950,
                      <<"manual_curation">>, <<"user">>, 0, NoSignature)}

SignEdge(key, e) ==
    sign_edge(key, e.source, e.target, e.relationship, e.created_at)

InitSign ==
    /\ active_connectors = <<>>
    /\ discovered_assets = <<>>
    /\ query_logs = <<>>
    /\ store = EmptyStore
    /\ now = 0
    /\ response = [status |-> "none"]
    /\ proposals = <<>>
    /\ cur_result = [status |-> "none"]
    /\ conf_in = NoScore
    /\ conf_out = NoScore
    /\ signing_key \in SigningKeys
    /\ sign_in \in {<<e1, e2>> : e1 \in SignableEdges, e2 \in SignableEdges}
    /\ sign_out = <<>>
    /\ IdlePaging /\ IdleArtifacts /\ IdleBackend /\ IdleWriters

\* one more round: both edges are signed again with the configured key
SignEdges ==
    /\ Len(sign_out) < MaxSignRounds
    /\ sign_out' = Append(sign_out, <<SignEdge(signing_key, sign_in[1]),
                                      SignEdge(signing_key, sign_in[2])>>)
    /\ UNCHANGED <<confVars, graphVars, now, curVars, signing_key, sign_in>>
    /\ UNCHANGED <<page_in, artifactVars, backendVars, writerVars>>

NextSign == SignEdges

SpecSign == InitSign /\ [][NextSign]_vars

(***************************************************************************)
(* Claims about the scorer                                                 *)
(***************************************************************************)
ScorerImpacts == [i \in 1..Len(conf_in.column_lineage) |->
                    conf_in.column_lineage[i].impact_score]

\* C1: for every relationship, every list of column mappings (any length,
\* any impact scores) and every list of transformations, the score
\* returned by compute_edge_confidence lies in [0, 1].
C1_ConfidenceInUnitInterval ==
    conf_out.done => (0 <= conf_out.num /\ conf_out.num <= conf_out.den)

\* the upper clamp is what keeps the score in range: 0.6 + 0.3 + 0.2 + 0.15
C1_Witness ==
    /\ conf_out.done
    /\ conf_in.relationship = "foreign_key"
    /\ Len(conf_in.column_lineage) >= 11
    /\ \A i \in 1..Len(ScorerImpacts) : ScorerImpacts[i] = 10
    /\ TransTypes(conf_in.transformations) = {"FOREIGN_KEY"}
    /\ conf_out.num = conf_out.den

\* the formula as the specification words it, over the mean impact m = S/n:
\* clamp(base + min(0.3, 0.03 n) + min(0.2, 0.2 m / 10) + bonus), times 1000 n
SpecifiedScoreN(relationship, impacts, types) ==
    LET n     == Len(impacts)
        S     == SumSeq(impacts)
        base  == IF relationship \in {"foreign_key", "etl_pipeline",
                                      "elt_pipeline", "id_relationship"}
                 THEN 600 ELSE 400
        bonus == IF types \cap {"FOREIGN_KEY", "ETL_PIPELINE",
                                "ELT_PIPELINE", "ID_RELATIONSHIP"} # {}
                 THEN 150 ELSE 0
        k     == IF n = 0 THEN 1 ELSE n
        raw   == IF n = 0 THEN base + bonus
                 ELSE n * (base + bonus)
                      + (IF 30 * n < 300 THEN n * 30 * n ELSE n * 300)
                      + (IF 20 * S < 200 * n THEN 20 * S ELSE 200 * n)
    IN  IF raw < 0 THEN 0 ELSE IF raw > 1000 * k THEN 1000 * k ELSE raw

\* C2: compute_edge_confidence follows the specified formula (base 0.6 for
\* the four strong relationships and 0.4 otherwise, min(0.3, 0.03 n) +
\* min(0.2, 0.2 m / 10) for n mappings of mean impact m, 0.15 for a strong
\* transformation, clamped to [0, 1]) on every mapping list whose impact
\* scores are set (non-zero); foreign_key with 5 mappings of impact 10 and
\* no transformations scores 0.95.
C2_ConfidenceFormula ==
    (conf_out.done /\ \A i \in 1..Len(ScorerImpacts) : ScorerImpacts[i] # 0)
    => /\ conf_out.den = 1000 * Max(1, Len(ScorerImpacts))
       /\ conf_out.num = SpecifiedScoreN(conf_in.relationship, ScorerImpacts,
                                         TransTypes(conf_in.transformations))
       /\ (/\ conf_in.relationship = "foreign_key"
           /\ ScorerImpacts = Repeat(10, 5)
           /\ conf_in.transformations = <<>>)
          => 1000 * conf_out.num = 950 * conf_out.den

C2_Witness ==
    /\ conf_out.done
    /\ conf_in.relationship = "foreign_key"
    /\ ScorerImpacts = Repeat(10, 5)
    /\ conf_in.transformations = <<>>
    /\ 1000 * conf_out.num = 950 * conf_out.den

(***************************************************************************)
(* Claims about the curation workflow                                      *)
(***************************************************************************)
Returned == cur_result.status = "returned"

\* the call was turned away by the role gate: propose reports it as 500
\* (its "except Exception" wraps the 403), approve as 403
Denied ==
    \/ cur_result.op = "propose" /\ cur_result.code = 500
    \/ cur_result.op = "approve" /\ cur_result.code = 403

\* the role claim matches 'admin' as the gate compares it (letter case aside)
MatchesAdmin(x_role) == x_role.present /\ Lower(x_role.value) = AdminRole

ProposedMatches(props, source, target) ==
    {i \in 1..Len(props) : /\ props[i].source = source
                           /\ props[i].target = target
                           /\ props[i].status = "proposed"}

C9_ApproveWithoutProposal ==
    (/\ Returned
     /\ cur_result.op = "approve"
     /\ ~Denied
     /\ ProposedMatches(cur_result.before, cur_result.source, cur_result.target) = {})
    => /\ cur_result.code = 404
       /\ cur_result.edge = NoEdge
       /\ proposals = cur_result.before

\* approving a second time what was already approved
C9_Witness ==
    /\ Returned
    /\ cur_result.op = "approve"
    /\ cur_result.code = 404
    /\ \E i \in 1..Len(cur_result.before) :
          /\ cur_result.before[i].source = cur_result.source
          /\ cur_result.before[i].target = cur_result.target
          /\ cur_result.before[i].status = "approved"
    /\ proposals = cur_result.before

\* C10: a successful approve changes exactly one entry, a matching one in
\* status "proposed", to "approved" with a timestamp, keeps the list length,
\* and returns an edge with the source and target, confidence 0.95 and
\* evidence ["manual_curation"].
C10_ApproveMarksOneEntry ==
    (Returned /\ cur_result.op = "approve" /\ cur_result.code = 200)
    => /\ Len(proposals) = Len(cur_result.before)
       /\ \E i \in ProposedMatches(cur_result.before, cur_result.source,
                                   cur_result.target) :
             /\ proposals[i].status = "approved"
             /\ proposals[i].approved_at # NoTime
             /\ [proposals[i] EXCEPT !.status = "proposed", !.approved_at = NoTime]
                  = cur_result.before[i]
             /\ \A j \in 1..Len(proposals) :
                   j # i => proposals[j] = cur_result.before[j]
       /\ cur_result.edge # NoEdge
       /\ cur_result.edge.source = cur_result.source
       /\ cur_result.edge.target = cur_result.target
       /\ cur_result.edge.confidence_score = 950
       /\ cur_result.edge.evidence = <<"manual_curation">>

\* an approve that had two matching proposals to choose from
C10_Witness ==
    /\ Returned
    /\ cur_result.op = "approve"
    /\ cur_result.code = 200
    /\ Cardinality(ProposedMatches(cur_result.before, cur_result.source,
                                   cur_result.target)) = 2
    /\ Cardinality(ProposedMatches(proposals, cur_result.source,
                                   cur_result.target)) = 1

(***************************************************************************)
(* Claims about the graph store and the graph assembler                    *)
(***************************************************************************)
Built == response.status = "ok"

OnePerKey(edges) ==
    \A i, j \in 1..Len(edges) :
        (edges[i].source = edges[j].source /\ edges[i].target = edges[j].target)
        => i = j

\* C3: after any sequence of upsert calls the store holds at most one node
\* per id and at most one edge per (source, target) pair
C3_StoreKeyedByNodeAndEdge ==
    /\ \A i, j \in 1..Len(store.nodes) :
           store.nodes[i].id = store.nodes[j].id => i = j
    /\ OnePerKey(store.edges)

\* C4: the edge list assembled by one build holds no two edges with the
\* same ordered (source, target) pair
C4_OneEdgePerPairInBuild == Built => OnePerKey(response.build_edges)

\* C5: a response to a call with as_of = T holds only edges created at or
\* before T, and every node of the response is the source or the target of
\* an edge of the response
C5_AsOfFiltersEdgesAndNodes ==
    (Built /\ response.as_of.kind \in {"naive", "aware"}) =>
        /\ \A k \in 1..Len(response.edges) :
               response.edges[k].created_at <= response.as_of.t
        /\ \A n \in 1..Len(response.nodes) :
               \E k \in 1..Len(response.edges) :
                   \/ response.edges[k].source = response.nodes[n].id
                   \/ response.edges[k].target = response.nodes[n].id

\* C6: a build holds no node of a connector that was disabled or removed
\* when the build ran, and no edge with such a node as source or target
EnabledAtBuild ==
    {response.connectors[k].id :
        k \in {i \in 1..Len(response.connectors) : response.connectors[i].enabled}}

ExcludedAtBuild ==
    {response.build_nodes[n].id :
        n \in {i \in 1..Len(response.build_nodes) :
                  response.build_nodes[i].connector_id \notin EnabledAtBuild}}

C6_InactiveConnectorsExcluded ==
    Built =>
        /\ ExcludedAtBuild = {}
        /\ \A k \in 1..Len(response.build_edges) :
               /\ response.build_edges[k].source \notin ExcludedAtBuild
               /\ response.build_edges[k].target \notin ExcludedAtBuild


(***************************************************************************)
(* Claims about edge signatures                                            *)
(***************************************************************************)
\* the edge carries the signature recomputed from its own four fields
SignedBy(key, e) ==
    e.edge_signature = sign_edge(key, e.source, e.target, e.relationship,
                                 e.created_at)

SignedFields(e) == <<e.source, e.target, e.relationship, e.created_at>>
KeyConfigured == signing_key # NoKey /\ signing_key # ""

\* C11: with a signing key configured, every edge the program emits (by a
\* graph build, by reconcile, by approve) carries the signature recomputed
\* over its source, target, relationship and created_at
C11_EveryEmittedEdgeSigned ==
    KeyConfigured =>
        /\ (Returned /\ cur_result.op = "approve" /\ cur_result.code = 200)
               => SignedBy(signing_key, cur_result.edge)
        /\ Built => \A k \in 1..Len(response.build_edges) :
                        SignedBy(signing_key, response.build_edges[k])
        /\ \A k \in 1..Len(store.edges) : SignedBy(signing_key, store.edges[k])



C12_WitnessDiffer ==
    /\ Len(sign_out) >= 1
    /\ KeyConfigured
    /\ sign_in[1].created_at # sign_in[2].created_at
    /\ sign_in[1].source = sign_in[2].source
    /\ sign_in[1].target = sign_in[2].target
    /\ sign_in[1].relationship = sign_in[2].relationship


(***************************************************************************)
(* Claims about raw artifacts and their reconciliation                     *)
(***************************************************************************)
\* the last artifact call was a reconcile that went through
Reconciled ==
    /\ artifact_result.status = "returned"
    /\ artifact_result.op = "reconcile" /\ artifact_result.code = 200

\* the (batch, node, dependency) places of the stored dbt batches where the
\* node is called t and depends on s
DbtPlaces(batches, s, t) ==
    {<<b, i, j>> \in (1..Len(batches)) \X (1..4) \X (1..4) :
        /\ i <= Len(batches[b].nodes)
        /\ j <= Len(batches[b].nodes[i].depends_on)
        /\ batches[b].nodes[i].name = t
        /\ batches[b].nodes[i].depends_on[j] = s}

DbtNames == {"a", "b", "c", "d", "", Missing}

C13_WitnessSingle ==
    /\ Reconciled
    /\ Len(store.dbt) = 1
    /\ store.dbt[1].nodes = <<[name |-> "b", depends_on |-> <<"a">>]>>
    /\ Len(artifact_result.by_adapter.dbt) = 1


Adapters == {"openlineage", "dbt", "airflow", "metadata"}

\* the baseline each adapter writes into its edges, in thousandths
AdapterBaseline(adapter) ==
    CASE adapter = "openlineage" -> 800
      [] adapter = "dbt"         -> 750
      [] adapter = "airflow"     -> 600
      [] adapter = "metadata"    -> 700

\* C14: every edge a reconcile produces carries its adapter's fixed baseline
\* confidence (openlineage 0.8, dbt 0.75, airflow 0.6, metadata 0.7) and
\* evidence and sources lists whose only element is the adapter's name
C14_AdapterBaselineAndTag ==
    Reconciled =>
        \A a \in Adapters :
            \A k \in 1..Len(artifact_result.by_adapter[a]) :
                LET e == artifact_result.by_adapter[a][k]
                IN  /\ e.confidence_score = AdapterBaseline(a)
                    /\ e.evidence = <<a>>
                    /\ e.sources = <<a>>
                    /\ e.column_lineage = <<>>

\* a reconcile that produced edges of two adapters at once
C14_Witness ==
    /\ Reconciled
    /\ Cardinality({a \in Adapters : artifact_result.by_adapter[a] # <<>>}) >= 2

\* reconciles that produced edges of the openlineage and of the metadata
\* adapter, the latter with a type taken from the record and a default one
C14_WitnessOpenLineage ==
    Reconciled /\ artifact_result.by_adapter.openlineage # <<>>
C14_WitnessMetadata ==
    /\ Reconciled
    /\ \E k \in 1..Len(artifact_result.by_adapter.metadata) :
          artifact_result.by_adapter.metadata[k].relationship = "owns"
    /\ \E k \in 1..Len(artifact_result.by_adapter.metadata) :
          artifact_result.by_adapter.metadata[k].relationship = "metadata_relationship"


\* the batch an ingest of the given kind stores for a payload at reading t
StoredBatch(kind, payload, t) ==
    CASE kind = "dbt" -> [received_at |-> t, nodes |-> payload.nodes]
      [] kind = "airflow" -> [received_at |-> t, dag_id |-> payload.dag_id,
                              tasks |-> payload.tasks]
      [] kind = "openlineage" -> [received_at |-> t, event |-> payload]
      [] kind = "metadata" -> [received_at |-> t, payload |-> payload]

\* this step is an ingest call
IngestStep ==
    /\ artifact_result' # artifact_result
    /\ artifact_result'.op \in Adapters

\* this step puts an edge tagged with an adapter's name into the store
AdapterEdgeStored ==
    \E k \in 1..Len(store'.edges) :
        /\ k > Len(store.edges)
        /\ store'.edges[k].evidence[1] \in Adapters

\* C15: an ingest only appends its raw batch to the list of its own source:
\* stored edges, stored nodes, the snapshot log and the lists of the other
\* sources stay as they were, a refused ingest changes nothing, and an edge
\* derived from an artifact enters the store only by a reconcile call
C15_IngestOnlyAppendsRawBatch ==
    [][/\ IngestStep =>
            LET kind == artifact_result'.op
            IN  /\ store'.edges = store.edges
                /\ store'.nodes = store.nodes
                /\ store'.snapshots = store.snapshots
                /\ neo4j' = neo4j
                /\ \A other \in Adapters \ {kind} : store'[other] = store[other]
                /\ store'[kind] =
                      IF artifact_result'.code = 200
                      THEN Append(store[kind],
                                  StoredBatch(kind, artifact_result'.payload, now))
                      ELSE store[kind]
       /\ AdapterEdgeStored =>
            /\ artifact_result' # artifact_result
            /\ artifact_result'.op = "reconcile" /\ artifact_result'.code = 200
      ]_vars

\* an ingest has just gone through on a store that already held edges,
\* nodes and a snapshot
C15_Witness ==
    /\ artifact_result.status = "returned"
    /\ artifact_result.op \in Adapters /\ artifact_result.code = 200
    /\ artifact_result.at = now - 1
    /\ store.edges # <<>> /\ store.nodes # <<>> /\ store.snapshots # <<>>
    /\ store[artifact_result.op] # <<>>

\* an ingest has just gone through on a store that held reconciled edges
\* and another source's batch
C15_WitnessAfterReconcile ==
    /\ artifact_result.status = "returned"
    /\ artifact_result.op = "airflow" /\ artifact_result.code = 200
    /\ artifact_result.at = now - 1
    /\ store.dbt # <<>>
    /\ \E k \in 1..Len(store.edges) : store.edges[k].evidence = <<"dbt">>


(***************************************************************************)
(* Claims about pagination                                                 *)
(***************************************************************************)
\* C16: called with page_size = 0, whatever the number of nodes and the
\* page, get_data_lineage returns all nodes and all edges
C16_PageSizeZeroReturnsAll ==
    (Built /\ response.page_size = 0) =>
        /\ response.nodes = response.filtered_nodes
        /\ response.edges = response.filtered_edges

\* the slice [page * page_size, page * page_size + page_size) of a list
PageSlice(nodes, page, page_size) ==
    LET first == page * page_size + 1
        last  == Min(Len(nodes), page * page_size + page_size)
    IN  [k \in 1..Max(0, last - first + 1) |-> nodes[first + k - 1]]

PaginationApplies ==
    /\ Built
    /\ 0 < response.page_size
    /\ response.page_size < Len(response.filtered_nodes)

\* C17: when 0 < page_size < number of nodes, the returned nodes are the
\* slice [page * page_size, page * page_size + page_size) of the node list
\* and the returned edges are the edges with source and target in the slice
C17_PageIsSliceWithInnerEdges ==
    PaginationApplies =>
        LET slice == PageSlice(response.filtered_nodes, response.page,
                               response.page_size)
            ids   == {slice[k].id : k \in 1..Len(slice)}
        IN  /\ response.nodes = slice
            /\ response.edges =
                  SelectSeq(response.filtered_edges,
                            LAMBDA e : e.source \in ids /\ e.target \in ids)
            /\ \A k \in 1..Len(response.edges) :
                  /\ \E n \in 1..Len(response.nodes) :
                        response.nodes[n].id = response.edges[k].source
                  /\ \E n \in 1..Len(response.nodes) :
                        response.nodes[n].id = response.edges[k].target

\* a second page of two nodes was cut from four, dropping edges that leave it
C17_Witness ==
    /\ PaginationApplies
    /\ response.page = 1 /\ response.page_size = 2
    /\ Len(response.filtered_nodes) = 4
    /\ Len(response.nodes) = 2
    /\ Len(response.edges) < Len(response.filtered_edges)

\* a page beyond the end of the list was asked for
C17_WitnessPastEnd ==
    /\ PaginationApplies
    /\ response.page * response.page_size >= Len(response.filtered_nodes)
    /\ response.nodes = <<>>


(***************************************************************************)
(* Claims about the graph store                                            *)
(***************************************************************************)
\* this step is a get_data_lineage call that answered and was asked for a
\* snapshot
SnapshotCall ==
    /\ response' # response
    /\ response'.status = "ok"
    /\ response'.snapshot

C18_WitnessThenReconcile ==
    /\ Len(store.snapshots) = 1
    /\ Reconciled
    /\ artifact_result.at >= store.snapshots[1].created_at
    /\ artifact_result.by_adapter.dbt # <<>> \/ store.edges # <<>>


\* neo4j was asked for with a URI and the driver could not be made
DriverInitFailed(gs) == gs.configured = "neo4j" /\ ~gs.init_ok

\* this step is a get_data_lineage call that answered / a reconcile call
\* that went through
LineageStep == response' # response /\ response'.status = "ok"
ReconcileStep ==
    /\ artifact_result' # artifact_result
    /\ artifact_result'.op = "reconcile" /\ artifact_result'.code = 200

\* C19: when neo4j is configured and its driver cannot be initialised, the
\* GraphStore selects the JSON backend, and the upsert_nodes and
\* upsert_edges calls made through it put their input into the JSON
\* document (every node under its id, every edge at the end of the edge
\* list) while the call that made them answers normally
C19_BackendFailsOpen ==
    [][/\ (LineageStep /\ DriverInitFailed(response'.graph_store)) =>
             /\ response'.graph_store.backend = "json"
             /\ \A k \in 1..Len(response'.filtered_nodes) :
                   \E n \in 1..Len(store'.nodes) :
                       store'.nodes[n] = response'.filtered_nodes[k]
             /\ store'.edges = store.edges \o response'.filtered_edges
             /\ neo4j' = neo4j
       /\ (ReconcileStep /\ DriverInitFailed(artifact_result'.graph_store)) =>
             /\ artifact_result'.graph_store.backend = "json"
             /\ store'.edges = store.edges \o NewEdges(artifact_result'.by_adapter)
             /\ neo4j' = neo4j
      ]_vars

\* a lineage call whose GraphStore could not make the driver has put its
\* nodes and edges into the JSON document
C19_Witness ==
    /\ response.status = "ok"
    /\ graph_env.backend = "neo4j" /\ graph_env.uri
    /\ DriverInitFailed(response.graph_store)
    /\ response.filtered_nodes # <<>> /\ response.filtered_edges # <<>>
    /\ store.nodes # <<>> /\ store.edges # <<>>
    /\ neo4j.nodes = {}

\* a reconcile whose GraphStore could not make the driver has put its edges
\* into the JSON document
C19_WitnessReconcile ==
    /\ Reconciled
    /\ DriverInitFailed(artifact_result.graph_store)
    /\ NewEdges(artifact_result.by_adapter) # <<>>
    /\ store.edges # <<>>

\* with the driver made, the cypher runs went through and the JSON document
\* was left alone
C19_WitnessNeo4jUsed ==
    /\ response.status = "ok"
    /\ UsesNeo4j(response.graph_store)
    /\ neo4j.nodes # {} /\ neo4j.edges # {}
    /\ store.nodes = <<>> /\ store.edges = <<>>


\* no write is under way
Quiescent == \A w \in Writers : writers.procs[w].pc = "idle"

\* C20: whatever the interleaving of a snapshot write, an ingest and an
\* edge upsert on the shared document, once the writes are through the
\* document holds the effect of every one of them
C20_NoLostUpdate ==
    (writers.procs # <<>> /\ Quiescent) =>
        /\ writers.file = "whole"
        /\ Len(store.snapshots) = writers.procs[1].done
        /\ Len(store.dbt) = writers.procs[2].done
        /\ Len(store.edges) = writers.procs[3].done

\* all three writes are through and the document holds one of them only
C20_LostUpdates ==
    /\ writers.procs # <<>> /\ Quiescent
    /\ \A w \in Writers : writers.procs[w].done = 1
    /\ writers.file = "whole"
    /\ Len(store.snapshots) + Len(store.dbt) + Len(store.edges) = 1

\* the three writes ran one after the other and all are in the document
C20_SerialWrites ==
    /\ writers.procs # <<>> /\ Quiescent
    /\ Len(store.snapshots) = 1 /\ Len(store.dbt) = 1 /\ Len(store.edges) = 1

(***************************************************************************)
(* Claims about the graph build over the registries of SpecBuild           *)
(***************************************************************************)
\* the build edges of the last response that Strategy 2 made
MetadataEdges ==
    SelectIdx(response.build_edges,
              [k \in 1..Len(response.build_edges) |->
                  response.build_edges[k].sources = <<"metadata_inference">>], 1)

\* how many of the edges join x and y, in either direction
EdgesBetween(edges, x, y) ==
    Cardinality({k \in 1..Len(edges) :
                    {edges[k].source, edges[k].target} = {x, y}})

\* the registries that list the tables a and b twice
DuplicatedRegistries == {<<DupA, DupB, DupA, DupB>>, <<DupA, DupBSql, DupA, DupBSql>>}

\* C21: the cross-catalog pass gives at most one edge per unordered pair of
\* assets, and for the registry that lists the same two tables twice it
\* gives exactly one edge between them
C21_OneMetadataEdgePerPair ==
    response.status # "none" =>
        /\ Built => \A k \in 1..Len(MetadataEdges) :
                       EdgesBetween(MetadataEdges, MetadataEdges[k].source,
                                    MetadataEdges[k].target) <= 1
        /\ discovered_assets \in DuplicatedRegistries =>
               /\ Built
               /\ EdgesBetween(MetadataEdges, DupA.id, DupB.id) = 1

\* the (adapter, source, target) of every record of the stored batches that
\* has all its required keys
WellFormedRecords ==
    {<<"dbt", n.depends_on[k], n.name>> :
        <<n, k>> \in {q \in (UNION {Range(b.nodes) : b \in Range(store.dbt)}) \X (1..3) :
                        /\ q[2] <= Len(q[1].depends_on)
                        /\ Truthy(q[1].name) /\ Truthy(q[1].depends_on[q[2]])}}
    \cup {<<"airflow", t.upstream[k], t.task_id>> :
        <<t, k>> \in {q \in (UNION {Range(b.tasks) : b \in Range(store.airflow)}) \X (1..3) :
                        /\ q[2] <= Len(q[1].upstream)
                        /\ Truthy(q[1].task_id) /\ Truthy(q[1].upstream[q[2]])}}
    \cup {<<"openlineage", DatasetName(io[1]), DatasetName(io[2])>> :
        io \in {q \in UNION {Range(b.event.inputs) \X Range(b.event.outputs) :
                                 b \in Range(store.openlineage)} :
                  Truthy(DatasetName(q[1])) /\ Truthy(DatasetName(q[2]))}}
    \cup {<<"metadata", r.source, r.target>> :
        r \in {q \in UNION {Range(b.payload.relationships) : b \in Range(store.metadata)} :
                  Truthy(q.source) /\ Truthy(q.target)}}

\* the (adapter, source, target) of the edges of the last reconcile call
ReconciledRecords ==
    UNION {{<<a, e.source, e.target>> : e \in Range(artifact_result.by_adapter[a])} :
              a \in Adapters}

\* some stored record lacks a required key
SomeRecordSkipped ==
    \/ \E b \in Range(store.dbt) : \E n \in Range(b.nodes) :
          Falsy(n.name) \/ \E d \in Range(n.depends_on) : Falsy(d)
    \/ \E b \in Range(store.airflow) : \E t \in Range(b.tasks) :
          Falsy(t.task_id) \/ \E u \in Range(t.upstream) : Falsy(u)
    \/ \E b \in Range(store.openlineage) :
          \E d \in Range(b.event.inputs) \cup Range(b.event.outputs) :
             Falsy(DatasetName(d))
    \/ \E b \in Range(store.metadata) : \E r \in Range(b.payload.relationships) :
          Falsy(r.source) \/ Falsy(r.target)

C22_WitnessTwoBatches ==
    /\ Reconciled /\ artifact_result.code = 200
    /\ \E a \in Adapters, b \in Adapters :
          /\ a # b
          /\ artifact_result.by_adapter[a] # <<>>
          /\ artifact_result.by_adapter[b] # <<>>
    /\ Cardinality({kind \in Adapters : store[kind] # <<>>}) >= 2
    /\ SomeRecordSkipped

(***************************************************************************)
(* The scorer under one more signal                                        *)
(***************************************************************************)
\* the score of the scored edge when the query log names both of its ends:
\* the builder appends {'type': 'QUERY_LOG'} to the transformations
ScoreWithQueryLog ==
    compute_edge_confidence(conf_in.relationship, conf_in.column_lineage,
        Append(conf_in.transformations, [type |-> "QUERY_LOG"]))

\* C23: with the same relationship, mappings and transformations, the
\* confidence computed with the QUERY_LOG transformation is never lower
\* than, and below the cap of 1.0 strictly greater than, the one without it
C23_QueryLogRaisesConfidence ==
    (conf_out.done /\ "QUERY_LOG" \notin TransTypes(conf_in.transformations)) =>
        /\ ScoreWithQueryLog.num >= conf_out.num
        /\ conf_out.num < conf_out.den => ScoreWithQueryLog.num > conf_out.num

(***************************************************************************)
(* The build end to end                                                    *)
(***************************************************************************)
\* C24: for the two Starburst tables a(id, email) and b(id, user_email),
\* with no views, foreign keys or query logs, the build holds an edge
\* between a and b whose only mapping is a.id / b.id of type id_inference
\* with impact 4, and whose confidence is 0.4 + 0.03 + 0.008, about 0.44
C24_IdInferenceEndToEnd ==
    (discovered_assets = <<IdA, IdB>> /\ response.status # "none") =>
        /\ Built
        /\ \E k \in 1..Len(response.build_edges) :
              \E e \in {response.build_edges[k]} :
                 /\ {e.source, e.target} = {IdA.id, IdB.id}
                 /\ Len(e.column_lineage) = 1
                 /\ e.column_lineage[1].source_column = "id"
                 /\ e.column_lineage[1].target_column = "id"
                 /\ e.column_lineage[1].relationship_type = "id_inference"
                 /\ e.column_lineage[1].impact_score = 4
                 /\ e.confidence_score \in 435..444

\* the mappings of an edge whose source column the classifier puts in a PII
\* level other than NONE; no column of the registries carries a description
PiiMappings(e) ==
    {i \in 1..Len(e.column_lineage) :
        detect_pii_in_column(e.column_lineage[i].source_column, "")[2] # "NONE"}

QualityTotal(e) ==
    SumSeq([i \in 1..Len(e.column_lineage) |-> e.column_lineage[i].data_quality_score])

\* avg_data_quality, kept in hundredths, is the mean of the mappings' scores
IsMeanQuality(e) ==
    Len(e.column_lineage) * e.avg_data_quality = 100 * QualityTotal(e)

\* avg_data_quality is the mean rounded to two decimal places: it is off the
\* mean by half a hundredth at most
IsRoundedMeanQuality(e) ==
    \E d \in {Len(e.column_lineage) * e.avg_data_quality - 100 * QualityTotal(e)} :
        2 * d <= Len(e.column_lineage) /\ -2 * d <= Len(e.column_lineage)

PiiAndScoresAsSpecified(e) ==
    /\ e.total_pii_columns = Cardinality(PiiMappings(e))
    /\ \A i \in 1..Len(e.column_lineage) :
          e.column_lineage[i].data_quality_score \in 0..100
    /\ e.column_lineage = <<>> => e.avg_data_quality = 9500

\* C25 as stated: for every edge of a build, total_pii_columns is the number
\* of mappings whose source column has a PII level other than NONE,
\* avg_data_quality is the mean of the mappings' data_quality_score, or 95.0
\* without mappings, and every data_quality_score lies in [0, 100]
C25_EdgeAggregatesExactMean ==
    Built => \A k \in 1..Len(response.build_edges) :
                /\ PiiAndScoresAsSpecified(response.build_edges[k])
                /\ response.build_edges[k].column_lineage # <<>> =>
                      IsMeanQuality(response.build_edges[k])

\* C25 amended: the same, with avg_data_quality the mean rounded to two
\* decimal places
C25_EdgeAggregatesRoundedMean ==
    Built => \A k \in 1..Len(response.build_edges) :
                /\ PiiAndScoresAsSpecified(response.build_edges[k])
                /\ response.build_edges[k].column_lineage # <<>> =>
                      IsRoundedMeanQuality(response.build_edges[k])

\* an edge with three mappings, one of them over a PII column, whose mean
\* quality does not end after two decimal places
C25_Witness ==
    /\ Built
    /\ \E k \in 1..Len(response.build_edges) :
          \E e \in {response.build_edges[k]} :
             /\ Len(e.column_lineage) = 3
             /\ e.total_pii_columns = 1
             /\ ~IsMeanQuality(e)
             /\ e.avg_data_quality = 5333

\* an edge without mappings: no PII column, quality 95.0
C25_WitnessNoMappings ==
    /\ Built
    /\ \E k \in 1..Len(response.build_edges) :
          /\ response.build_edges[k].column_lineage = <<>>
          /\ response.build_edges[k].avg_data_quality = 9500
          /\ response.build_edges[k].total_pii_columns = 0

\* the edges of the build over the registry without the asset f
EdgesWithout(f) ==
    BuildGraph(SelectSeq(discovered_assets, LAMBDA a : a # f), active_connectors,
               query_logs, 0, signing_key).edges

\* a call over a registry that holds f answers with a graph, and the graph
\* holds every edge that the other assets give
SurvivesFailureOf(f) ==
    (f \in Range(discovered_assets) /\ response.status # "none") =>
        /\ Built
        /\ \A e \in Range(EdgesWithout(f)) :
              \E k \in 1..Len(response.build_edges) :
                 /\ response.build_edges[k].source = e.source
                 /\ response.build_edges[k].target = e.target
                 /\ response.build_edges[k].relationship = e.relationship

\* C26: a view whose SQL cannot be fetched or parsed, and a source/target
\* pair whose column lineage cannot be built, do not abort the build: the
\* call still answers, with the edges of every other asset
C26_FailureDoesNotAbortBuild ==
    SurvivesFailureOf(BrokenView) /\ SurvivesFailureOf(SqlView)

(***************************************************************************)
(* Column mappings against the nodes and the direction of their edge       *)
(***************************************************************************)
NodeIds(nodes) == {nodes[k].id : k \in 1..Len(nodes)}

\* every mapping of every edge names two nodes of the list
TablesAreNodes(edges, nodes) ==
    \A k \in 1..Len(edges) : \A i \in 1..Len(edges[k].column_lineage) :
        /\ edges[k].column_lineage[i].source_table \in NodeIds(nodes)
        /\ edges[k].column_lineage[i].target_table \in NodeIds(nodes)

ApprovedNow ==
    Returned /\ cur_result.op = "approve" /\ cur_result.code = 200

\* C27: in every edge the engine emits, every mapping's source_table and
\* target_table are ids of nodes of the same response: in a build before
\* and after the as_of filter and the pagination, and in the edge that
\* approve makes from a proposal, whose nodes are those of the registry
C27_MappingTablesAreNodes ==
    /\ Built => /\ TablesAreNodes(response.build_edges, response.build_nodes)
                /\ TablesAreNodes(response.filtered_edges, response.filtered_nodes)
                /\ TablesAreNodes(response.edges, response.nodes)
    /\ ApprovedNow =>
          TablesAreNodes(<<cur_result.edge>>,
                         BuildNodes(discovered_assets, active_connectors))

C28_WitnessReversedPair ==
    /\ discovered_assets = ViewFirst
    /\ response.status = "error"

\* the score of the scored edge with one more mapping of impact imp
ScoreWithMapping(imp) ==
    compute_edge_confidence(conf_in.relationship,
                            Append(conf_in.column_lineage, ScorerMapping(imp)),
                            conf_in.transformations)

\* C29: with the relationship and the transformations fixed, one more
\* mapping, of any impact from 1 to 10, appended to a list of mappings that
\* is not empty never lowers the confidence
C29_MoreMappingsNeverLower ==
    (/\ conf_out.done /\ conf_in.column_lineage # <<>>
     /\ \A i \in 1..Len(conf_in.column_lineage) :
           conf_in.column_lineage[i].impact_score \in 1..10) =>
        \A imp \in 1..10 :
           ScoreWithMapping(imp).num * conf_out.den
              >= conf_out.num * ScoreWithMapping(imp).den

(***************************************************************************)
(* The life of a proposal                                                  *)
(***************************************************************************)
\* entry i is the same but for an approval of a proposed entry
SameOrApproved(old, new) ==
    \/ new = old
    \/ /\ old.status = "proposed" /\ new.status = "approved"
       /\ new = [old EXCEPT !.status = "approved", !.approved_at = new.approved_at]

\* C30: the status of a proposal only moves forward: a new proposal starts
\* as 'proposed', an approved one is never proposed again and never approved
\* a second time, the list never shrinks, and a propose call changes no
\* entry that is already there
C30_ProposalStatusMonotone ==
    [][/\ Len(proposals') >= Len(proposals)
       /\ \A i \in 1..Len(proposals) :
             /\ SameOrApproved(proposals[i], proposals'[i])
             /\ proposals[i].status = "approved" => proposals'[i] = proposals[i]
       /\ \A i \in (Len(proposals) + 1)..Len(proposals') :
             proposals'[i].status = "proposed" /\ proposals'[i].approved_at = NoTime
       /\ Len(proposals') > Len(proposals) =>
             /\ Len(proposals') = Len(proposals) + 1
             /\ SubSeq(proposals', 1, Len(proposals)) = proposals]_vars

\* an approved entry followed by a later proposal for the same pair
C30_Witness ==
    /\ Len(proposals) = 2
    /\ proposals[1].status = "approved" /\ proposals[2].status = "proposed"
    /\ proposals[1].source = proposals[2].source
    /\ proposals[1].target = proposals[2].target
    /\ proposals[2].proposed_at > proposals[1].approved_at

\* two entries for one pair, each approved by its own call
C30_WitnessBothApproved ==
    /\ Len(proposals) = 2
    /\ proposals[1].status = "approved" /\ proposals[2].status = "approved"
    /\ proposals[1].source = proposals[2].source
    /\ proposals[1].target = proposals[2].target
    /\ proposals[1].approved_at < proposals[2].approved_at

====
